---- MODULE Spec2Model ----
(***************************************************************************)
(* A model of the RAG core of MODEL-PY:                                    *)
(*   - rag_query (src/LLM/query.py): the batched query orchestrator,       *)
(*   - process_document (src/EMBEDDING/process.py): streaming ingestion,   *)
(*   - _split_text_with_overlap (src/EMBEDDING/process.py): the chunker.   *)
(* Python values are encoded as follows.  A string is a TLA+ string; the   *)
(* value None, where a string is expected, is the string NoneVal.  A       *)
(* response line is a sequence of one-character strings.  A Python list    *)
(* whose order is arbitrary (list(set(...))) is a set.                     *)
(***************************************************************************)
EXTENDS Integers, Sequences, FiniteSets, TLC

(* ------------------------------ bounds --------------------------------- *)

\* The largest number of questions in one rag_query call.
MaxQ == 3

\* The largest number of lines in one generated response.
MaxLines == 3

(* ------------------------- Python value encodings ---------------------- *)

NoneVal == "<None>"
IntVal == "<int>"

Min(a, b) == IF a < b THEN a ELSE b

Digits == {"0", "1", "2", "3"}
Space == " "

\* The i-th question of a batch.
Question(i) == <<"q", i>>

QuestionList(n) == [i \in 1..n |-> Question(i)]

(* --------------------- the rag_query state (query.py) ------------------ *)

VARIABLES
    pc,                   \* the stage rag_query is in
    collection,           \* truthiness of the collection argument
    query,                \* the query argument: [isList, items]
    conversation_history, \* the conversation_history argument
    results,              \* what collection.query returned
    contexts,             \* contexts, one per question
    all_sources,          \* all_sources / sources_list
    prompt,               \* the combined prompt, a sequence of parts
    final_response,       \* what generate_response returned, as lines
    ret,                  \* the value returned to the caller
    stages,               \* the stages passed through, in order
    query_calls,          \* the query_texts of every collection.query call
    gen_calls             \* the prompt of every generate_response call

qvars == <<pc, collection, query, conversation_history, results, contexts,
           all_sources, prompt, final_response, ret, stages, query_calls,
           gen_calls>>

(* ------------- the process_document state (process.py) ----------------- *)

VARIABLES
    ipc,              \* where process_document is
    text_content,     \* the text_content argument: [isStr, lines]
    metadata,         \* the metadata argument
    chunk_size,       \* the chunk_size argument
    chunk_overlap,    \* the chunk_overlap argument
    batch_size,       \* the batch_size argument
    get_or_create_calls, \* the client.get_or_create_collection calls made
    sections,         \* sections, what _split_into_sections returned
    chunk_stream,     \* what the generator chunk_stream has yet to yield
    full_stream,      \* everything chunk_stream yields, from its creation on
    batch,            \* batch_docs, batch_metas, batch_ids
    chunk_id_counter, \* chunk_id_counter
    total_chunks,     \* total_chunks
    submissions,      \* the collection.add calls: their arguments and outcome
    store,            \* the records the collection holds
    outcome           \* how the call ended: the value returned or the error

ivars == <<ipc, text_content, metadata, chunk_size, chunk_overlap, batch_size,
           get_or_create_calls, sections, chunk_stream, full_stream, batch,
           chunk_id_counter, total_chunks, submissions, store, outcome>>

(* ------- the state of one _split_text_with_overlap call (process.py) --- *)

VARIABLES
    cpc,        \* where the call is: "call", then "returned"
    ctext,      \* the text argument: [isStr, lines]
    csize,      \* the chunk_size argument
    coverlap,   \* the chunk_overlap argument
    yielded     \* the chunks the generator yielded, in order

cvars == <<cpc, ctext, csize, coverlap, yielded>>

(* ------------- the state of one run_pipeline request (api/main.py) ----- *)

VARIABLES
    rpc,            \* where the request handler is
    request,        \* the request: [questions, conversation_id]
    live,           \* the collections of the client that exist
    asked,          \* the questions rag_query was called with, in order
    search_calls,   \* the collection.query calls made for the request
    generate_calls, \* the generate_response calls made for the request
    pipeline_answers, \* answers, of run_pipeline
    http_response   \* the response sent: [status, answers]

pvars == <<rpc, request, live, asked, search_calls, generate_calls,
           pipeline_answers, http_response>>

(* ------- process_document calls on one collection name (process.py) ---- *)

VARIABLES
    calls,   \* per call: [at, stream, size, batch, counter]
    issued   \* the ids of every collection.add call, in call order

mvars == <<calls, issued>>

(* ------- the state of one run of the answer parsing (query.py) --------- *)

VARIABLES
    parse_pc,        \* where the parsing is: "parse", then "returned"
    parse_response,  \* final_response, as lines
    parse_n,         \* len(queries)
    parsed_answers   \* parsed_answers, after the padding

avars == <<parse_pc, parse_response, parse_n, parsed_answers>>

vars == <<qvars, ivars, cvars, pvars, mvars, avars>>

(* ------------------- answer parsing (query.py 155-164) ----------------- *)

RECURSIVE LStrip(_)
\* str.lstrip(): the line without its leading whitespace.
LStrip(line) ==
    IF line # <<>> /\ Head(line) = Space THEN LStrip(Tail(line)) ELSE line

RECURSIVE RStrip(_)
\* str.rstrip(): the line without its trailing whitespace.
RStrip(line) ==
    IF line # <<>> /\ line[Len(line)] = Space
    THEN RStrip(SubSeq(line, 1, Len(line) - 1))
    ELSE line

\* str.strip()
Strip(line) == RStrip(LStrip(line))

RECURSIVE DropDigits(_)
\* The rest of the line after its leading run of digits (\d+ is greedy).
DropDigits(line) ==
    IF line # <<>> /\ Head(line) \in Digits THEN DropDigits(Tail(line)) ELSE line

\* re.sub(r'^\s*\d+[.)]?\s*', '', ans): when the line starts, after optional
\* whitespace, with a digit, the digits, one optional "." or ")" and the
\* whitespace after them are removed; any other line is left as it is.
StripEnumerator(ans) ==
    LET s == LStrip(ans) IN
    IF s = <<>> \/ Head(s) \notin Digits THEN ans
    ELSE LET d == DropDigits(s)
             e == IF d # <<>> /\ Head(d) \in {".", ")"} THEN Tail(d) ELSE d
         IN  LStrip(e)

NonBlank(line) == Strip(line) # <<>>

\* raw_answers: the stripped non-blank lines of the response, in order.
RawAnswers(response) ==
    LET nb == SelectSeq(response, NonBlank)
    IN  [i \in 1..Len(nb) |-> Strip(nb[i])]

TextAnswer(chars) == [k |-> "text", v |-> chars]
SentinelAnswer == [k |-> "sentinel", v |-> <<>>]
ErrorAnswer(which) == [k |-> "error", v |-> <<which>>]

\* parsed_answers before padding.
ParsedAnswers(response) ==
    LET raw == RawAnswers(response)
    IN  [i \in 1..Len(raw) |-> TextAnswer(StripEnumerator(raw[i]))]

RECURSIVE PadAtFront(_, _)
\* Pad with the sentinel put before the parsed answers.
PadAtFront(parsed, n) ==
    IF Len(parsed) < n THEN PadAtFront(<<SentinelAnswer>> \o parsed, n) ELSE parsed

RECURSIVE Pad(_, _)
\* while len(parsed_answers) < len(queries): parsed_answers.append(sentinel)
Pad(parsed, n) ==
    IF Len(parsed) < n THEN Pad(Append(parsed, SentinelAnswer), n) ELSE parsed

\* answers = [(ans, sources_list) for ans in parsed_answers]
FormatAnswers(parsed, sources) ==
    [i \in 1..Len(parsed) |-> [answer |-> parsed[i], sources |-> sources]]

(* --------------------- return values of rag_query ---------------------- *)

NoRet == [shape |-> "none", items |-> <<>>]
TupleRet(item) == [shape |-> "tuple", items |-> <<item>>]
ListRet(items) == [shape |-> "list", items |-> items]

\* The error return used by every handler: one (msg, sources) tuple for a
\* single query, one per question for a list.
ErrorRet(single, n, which, sources) ==
    LET item == [answer |-> ErrorAnswer(which), sources |-> sources]
    IN  IF single THEN TupleRet(item) ELSE ListRet([i \in 1..n |-> item])

(* ------------- what collection.query may return (external) ------------- *)

ListEntry(items) == [k |-> "list", v |-> items]
NoneEntry == [k |-> "none", v |-> <<>>]
IntEntry == [k |-> "int", v |-> <<>>]

Meta(source) == [isDict |-> TRUE, source |-> source]
NotDictMeta == [isDict |-> FALSE, source |-> NoneVal]

\* The neighbour lists returned for one question: its entry of
\* results['documents'] and its entry of results['metadatas'].
Hits ==
    { [docs |-> ListEntry(<<"d2">>), metas |-> ListEntry(<<Meta("s2")>>)],
      [docs |-> ListEntry(<<NoneVal, "d1", "d2", "d1">>),
       metas |-> ListEntry(<<Meta("s1"), NotDictMeta, Meta(""), Meta(IntVal),
                             Meta("s3")>>)],
      [docs |-> ListEntry(<<>>), metas |-> ListEntry(<<>>)],
      [docs |-> NoneEntry, metas |-> NoneEntry],
      [docs |-> IntEntry, metas |-> ListEntry(<<Meta("s1")>>)],
      [docs |-> ListEntry(<<"d1">>), metas |-> IntEntry] }

\* A results dict whose 'documents' holds the first dl and whose 'metadatas'
\* holds the first ml of the per-question neighbour lists hs.
ResultsDict(hs, dl, ml, hasDocs, hasMetas) ==
    [k |-> "dict", hasDocs |-> hasDocs, hasMetas |-> hasMetas,
     documents |-> [i \in 1..dl |-> hs[i].docs],
     metadatas |-> [i \in 1..ml |-> hs[i].metas]]

NoResults ==
    [k |-> "none", hasDocs |-> FALSE, hasMetas |-> FALSE,
     documents |-> <<>>, metadatas |-> <<>>]

\* Every value collection.query may return for n questions: a falsy value,
\* a dict without 'documents', a dict without 'metadatas', and dicts whose
\* lists are complete or shorter than the question list.
SearchResults(n) ==
    {NoResults}
    \cup { ResultsDict(hs, 0, 0, FALSE, TRUE) : hs \in {<<>>} }
    \cup { ResultsDict(hs, n, 0, TRUE, FALSE) : hs \in [1..n -> Hits] }
    \cup UNION { { ResultsDict(hs, dl, ml, TRUE, TRUE) :
                     ml \in {m \in {dl - 1, dl} : m >= 0} } :
                 <<hs, dl>> \in UNION { [1..d -> Hits] \X {d} : d \in 0..n } }

(* ---------- get_context_with_sources (query.py 7-38) -------------------- *)

\* `source and isinstance(source, str)`: a non-empty string.
IsSource(source) == source \notin {NoneVal, "", IntVal}

RECURSIVE ContextParts(_, _)
\* context_parts: one (label, document) part per result with a non-empty
\* string document; the label i counts every result, kept or skipped.
ContextParts(search_results, i) ==
    IF i > Len(search_results) THEN <<>>
    ELSE LET document == search_results[i].document
             rest == ContextParts(search_results, i + 1)
         IN  IF document = "" THEN rest
             ELSE <<[label |-> i, document |-> document]>> \o rest

\* sources of get_context_with_sources: the sources of the kept results.
ContextSources(search_results) ==
    { search_results[i].metadata.source :
        i \in { j \in 1..Len(search_results) :
                  /\ search_results[j].document # ""
                  /\ IsSource(search_results[j].metadata.source) } }

get_context_with_sources(search_results) ==
    IF search_results = <<>>
    THEN [context |-> <<>>, sources |-> {}]
    ELSE [context |-> ContextParts(search_results, 1),
          sources |-> ContextSources(search_results)]

(* ------------- the context loop of rag_query (query.py 97-123) --------- *)

\* `results['documents'][idx] or []`: None and the empty list become [].
OrEmpty(entry) == IF entry.k = "none" THEN ListEntry(<<>>) ELSE entry

\* The search_results list built from zip(documents, metadatas).
ZipResults(documents, metadatas) ==
    [j \in 1..Min(Len(documents), Len(metadatas)) |->
        [document |-> IF documents[j] = NoneVal THEN "" ELSE documents[j],
         metadata |-> IF metadatas[j].isDict THEN metadatas[j] ELSE Meta(NoneVal)]]

\* The sources of every metadata entry, also past the end of documents.
AllMetaSources(documents, metadatas) ==
    { metadatas[j].source :
        j \in { i \in 1..Len(metadatas) :
                  metadatas[i].isDict /\ IsSource(metadatas[i].source) } }

\* The sources the loop over zip(documents, metadatas) adds to all_sources.
ZipSources(documents, metadatas) ==
    { metadatas[j].source :
        j \in { i \in 1..Min(Len(documents), Len(metadatas)) :
                  metadatas[i].isDict /\ IsSource(metadatas[i].source) } }

\* Whether the loop body falls into its `continue` branch for idx:
\* results falsy, no 'documents' key, or len(results['documents']) <= idx.
NoResultFor(res, idx) ==
    res.k = "none" \/ ~res.hasDocs \/ Len(res.documents) < idx

\* Whether the loop body raises for idx: KeyError (no 'metadatas'),
\* IndexError (metadatas shorter than idx) or TypeError (zip of a
\* non-iterable entry).
BodyRaises(res, idx) ==
    /\ ~NoResultFor(res, idx)
    /\ \/ ~res.hasMetas
       \/ Len(res.metadatas) < idx
       \/ OrEmpty(res.documents[idx]).k = "int"
       \/ OrEmpty(res.metadatas[idx]).k = "int"

RECURSIVE ContextLoop(_, _, _, _, _)
\* for idx, query_text in enumerate(queries): ...; the result is
\* [raised, contexts, all_sources], raised when the body raised.
ContextLoop(res, n, idx, ctxs, srcs) ==
    IF idx > n THEN [raised |-> FALSE, contexts |-> ctxs, all_sources |-> srcs]
    ELSE IF NoResultFor(res, idx)
         THEN ContextLoop(res, n, idx + 1, Append(ctxs, <<>>), srcs)
    ELSE IF BodyRaises(res, idx)
         THEN [raised |-> TRUE, contexts |-> ctxs, all_sources |-> srcs]
    ELSE LET documents == OrEmpty(res.documents[idx]).v
             metadatas == OrEmpty(res.metadatas[idx]).v
             search_results == ZipResults(documents, metadatas)
             context == get_context_with_sources(search_results).context
         IN  ContextLoop(res, n, idx + 1, Append(ctxs, context),
                         srcs \cup ZipSources(documents, metadatas))

(* ------------- the combined prompt (query.py 125-141) ------------------ *)

Part(t, i, text, ctx) == [t |-> t, i |-> i, text |-> text, ctx |-> ctx]

\* conversation_history.strip() is non-empty
HistoryGiven(history) == history \notin {"", " "}

RECURSIVE QuestionPartsFirstContext(_, _, _)
\* Question parts that all show the context of the first question.
QuestionPartsFirstContext(qs, ctxs, i) ==
    IF i > Min(Len(qs), Len(ctxs)) THEN <<>>
    ELSE <<Part("question", i, qs[i], <<>>),
           IF ctxs[1] # <<>> THEN Part("context", i, <<>>, ctxs[1])
                             ELSE Part("no_context", i, <<>>, <<>>)>>
         \o QuestionPartsFirstContext(qs, ctxs, i + 1)

RECURSIVE QuestionParts(_, _, _)
\* for i, (q, ctx) in enumerate(zip(queries, contexts)): the question part
\* and then its context part, or the no-information marker.
QuestionParts(queries, ctxs, i) ==
    IF i > Min(Len(queries), Len(ctxs)) THEN <<>>
    ELSE <<Part("question", i, queries[i], <<>>),
           IF ctxs[i] # <<>> THEN Part("context", i, <<>>, ctxs[i])
                             ELSE Part("no_context", i, <<>>, <<>>)>>
         \o QuestionParts(queries, ctxs, i + 1)

BuildPrompt(queries, ctxs, history) ==
    <<Part("system", 0, <<>>, <<>>)>>
    \o (IF HistoryGiven(history)
        THEN <<Part("history", 0, <<history>>, <<>>)>> ELSE <<>>)
    \o QuestionParts(queries, ctxs, 1)
    \o <<Part("format", 0, <<>>, <<>>)>>
    \o [i \in 1..Len(queries) |-> Part("slot", i, <<>>, <<>>)]

(* ------------- what the generative model may answer (external) --------- *)

\* Lines of a response: enumerated with "." or ")", plain, and blank.
ResponseLines ==
    { <<"1", ".", " ", "a">>, <<" ", "2", ")", "b", " ">>, <<"c">>, <<" ">> }

RECURSIVE SeqsUpTo(_, _)
\* Every sequence over S of length at most n.
SeqsUpTo(S, n) ==
    IF n = 0 THEN {<<>>}
    ELSE LET shorter == SeqsUpTo(S, n - 1)
         IN  shorter \cup { Append(q, x) : q \in shorter, x \in S }

Responses == SeqsUpTo(ResponseLines, MaxLines)

\* generate_response (response.py 4-34): the text ask_claude returned,
\* stripped; when ask_claude raises, the handler's use of the undefined name
\* `logger` raises in turn, so the call raises.
generate_response(askOk, text) ==
    IF askOk THEN [raised |-> FALSE, value |-> text]
             ELSE [raised |-> TRUE, value |-> <<>>]

(* ------------------- the inputs of rag_query --------------------------- *)

StrQuery(items) == [isList |-> FALSE, items |-> items]
ListQuery(items) == [isList |-> TRUE, items |-> items]

\* A str query is "" (no item) or one question; a list query holds 0..MaxQ
\* questions.
Queries ==
    {StrQuery(<<>>), StrQuery(QuestionList(1))}
    \cup { ListQuery(QuestionList(n)) : n \in 0..MaxQ }

Histories == {" ", "h"}

\* is_single_query and queries (query.py 79-80)
is_single_query == ~query.isList
queries == query.items

(* ------------------- the handlers' return values ----------------------- *)

\* The no-collection return as one tuple, whatever the query is.
NoCollectionSingleRet(q) ==
    ErrorRet(TRUE, Len(q.items), "No collection provided for RAG query", {})

\* query.py 64-69
NoCollectionRet(q) ==
    ErrorRet(~q.isList, Len(q.items), "No collection provided for RAG query", {})

\* query.py 71-76
InvalidQueryRet(q) ==
    ErrorRet(~q.isList, Len(q.items), "Invalid query provided", {})

\* The search-error return as one tuple, whatever the query is.
SearchErrorSingleRet(single, qs) ==
    ErrorRet(TRUE, Len(qs), "Error searching documents", {})

\* query.py 91-95
SearchErrorRet(single, qs) ==
    ErrorRet(single, Len(qs), "Error searching documents", {})

\* query.py 148-153
GenerationErrorRet(single, qs, sources_list) ==
    ErrorRet(single, Len(qs), "Error generating response", sources_list)

\* query.py 177-181
UnexpectedErrorRet(single, qs) ==
    ErrorRet(single, Len(qs), "An unexpected error occurred", {})

\* No outer handler: the exception leaves rag_query.
NoOuterHandler(single, qs) == [pc |-> "raised", ret |-> NoRet]

\* The outer `except Exception` (query.py 177-181): the exception is caught
\* and the call returns the error result.
OuterHandler(single, qs) ==
    [pc |-> "error_filled", ret |-> UnexpectedErrorRet(single, qs)]

\* query.py 166-175
AnswersRet(single, parsed, sources_list) ==
    LET answers == FormatAnswers(parsed, sources_list)
    IN  IF single THEN TupleRet(answers[1]) ELSE ListRet(answers)

(* ====================== ingestion (EMBEDDING/process.py) =============== *)
(* A text is a sequence of lines (joined by "\n").  A line is a record     *)
(*   [pos, header, title, sents, pipes]:                                   *)
(* pos is its line number, header says whether the line starts (after     *)
(* optional whitespace) with one of the markers of header_pattern, title   *)
(* is the marker text, sents are the lengths of the sentences the segmenter*)
(* finds in it, and pipes is the number of "|" characters, which stand at  *)
(* the start of the line.  A blank line has no sentence.                   *)

\* len(content.strip()) < 50 (process.py 154)
MinSectionLen == 50

\* content[:300] (process.py 76, 156)
TablePrefix == 300

\* content.count('|') > 3 (process.py 76, 156)
TablePipes == 3

\* The largest number of lines of a text.
MaxTextLines == 3

\* The largest batch_size.
MaxBatch == 2

RECURSIVE SumSeq(_)
SumSeq(q) == IF q = <<>> THEN 0 ELSE Head(q) + SumSeq(Tail(q))

\* Length of the strings of lengths q joined by a one-character separator.
JoinedLen(q) == IF q = <<>> THEN 0 ELSE SumSeq(q) + Len(q) - 1

LineLen(line) == JoinedLen(line.sents)

BlankLine(line) == line.sents = <<>>

RECURSIVE TrimLines(_)
\* str.strip(), on lines: without the leading and trailing blank lines.
TrimLines(lines) ==
    IF lines = <<>> THEN <<>>
    ELSE IF BlankLine(Head(lines)) THEN TrimLines(Tail(lines))
    ELSE IF BlankLine(lines[Len(lines)])
         THEN TrimLines(SubSeq(lines, 1, Len(lines) - 1))
    ELSE lines

\* len(content) of a stripped content.
ContentLen(content) == JoinedLen([i \in 1..Len(content) |-> LineLen(content[i])])

\* The offset of line i in the content.
LineOffset(content, i) ==
    SumSeq([j \in 1..(i - 1) |-> LineLen(content[j]) + 1])

\* '|' in content[:300] and content.count('|') > 3 (process.py 76, 156)
IsTable(content) ==
    /\ \E i \in 1..Len(content) :
          content[i].pipes > 0 /\ LineOffset(content, i) < TablePrefix
    /\ SumSeq([i \in 1..Len(content) |-> content[i].pipes]) > TablePipes

(* ------------- _split_into_sections (process.py 43-64) ----------------- *)

\* The lines re.finditer(header_pattern, text) matches: the pattern starts
\* with "\n", so the first line of the text is never matched.
HeaderMatches(lines) == { i \in 2..Len(lines) : lines[i].header }

\* The first match after line i, or the line after the last.
NextMatch(lines, i) ==
    LET later == { j \in HeaderMatches(lines) : j > i }
    IN  IF later = {} THEN Len(lines) + 1
        ELSE CHOOSE j \in later : \A k \in later : j <= k

RECURSIVE SectionsFrom(_, _)
\* parts, from the match at line i on: each section runs from its match to
\* the next match, or to the end of the text.
SectionsFrom(lines, i) ==
    IF i > Len(lines) THEN <<>>
    ELSE LET n == NextMatch(lines, i)
         IN  <<[header |-> lines[i].title,
                content |-> TrimLines(SubSeq(lines, i, n - 1))]>>
             \o SectionsFrom(lines, n)

\* A splitter without the "Uncategorized" section for a text with no match.
SplitWithoutFallback(lines) ==
    IF HeaderMatches(lines) # {}
    THEN SectionsFrom(lines, NextMatch(lines, 1))
    ELSE <<>>

_split_into_sections(lines) ==
    LET parts ==
          IF HeaderMatches(lines) # {}
          THEN SectionsFrom(lines, NextMatch(lines, 1))
          ELSE IF TrimLines(lines) # <<>>
          THEN <<[header |-> "Uncategorized", content |-> TrimLines(lines)]>>
          ELSE <<>>
        NotEmpty(p) == p.content # <<>>
    IN  SelectSeq(parts, NotEmpty)

(* ------------- _split_text_with_overlap (process.py 67-114) ------------ *)

\* A sentence: where it stands in the text (line, index in the line) and
\* its length.
Sentence(pos, k, n) == [id |-> <<pos, k>>, len |-> n]

RECURSIVE SentTokenize(_)
\* nltk.sent_tokenize(text): the sentences of the lines, in order.
SentTokenize(content) ==
    IF content = <<>> THEN <<>>
    ELSE LET line == Head(content)
         IN  [k \in 1..Len(line.sents) |-> Sentence(line.pos, k, line.sents[k])]
             \o SentTokenize(Tail(content))

SentLens(sentences) == [i \in 1..Len(sentences) |-> sentences[i].len]

\* A chunk string: the sentences it holds and its length in characters.
TextChunk(sentences) ==
    [table |-> FALSE, sents |-> sentences, len |-> JoinedLen(SentLens(sentences))]

\* text.strip() yielded whole.
TableChunk(content) ==
    [table |-> TRUE, sents |-> SentTokenize(content), len |-> ContentLen(content)]

\* A carry that does not look at the length of the last sentence.
CarryAlways(current_chunk, size, overlap) ==
    IF overlap > 0 THEN <<current_chunk[Len(current_chunk)]>> ELSE <<>>

\* The buffer after a flush, before the triggering sentence is appended
\* (process.py 100-106).
Carry(current_chunk, size, overlap) ==
    IF overlap > 0
    THEN LET last_sentence == current_chunk[Len(current_chunk)]
         IN  IF last_sentence.len < size THEN <<last_sentence>> ELSE <<>>
    ELSE <<>>

RECURSIVE ChunkLoopDropsTrigger(_, _, _, _, _)
\* A loop that, after a flush, forgets the sentence that caused it.
ChunkLoopDropsTrigger(sentences, current_chunk, current_length, size, overlap) ==
    IF sentences = <<>>
    THEN IF current_chunk # <<>> THEN <<TextChunk(current_chunk)>> ELSE <<>>
    ELSE LET sentence == Head(sentences)
             rest == Tail(sentences)
         IN  IF sentence.len = 0
             THEN ChunkLoopDropsTrigger(rest, current_chunk, current_length,
                                        size, overlap)
             ELSE IF current_length + sentence.len > size
                     /\ current_chunk # <<>>
             THEN LET carried == Carry(current_chunk, size, overlap)
                  IN  <<TextChunk(current_chunk)>>
                      \o ChunkLoopDropsTrigger(rest, carried,
                                   JoinedLen(SentLens(carried)), size, overlap)
             ELSE ChunkLoopDropsTrigger(rest, Append(current_chunk, sentence),
                            current_length + sentence.len, size, overlap)

RECURSIVE ChunkLoop(_, _, _, _, _)
\* for sentence in sentences: ...; then the final flush (process.py 90-114).
ChunkLoop(sentences, current_chunk, current_length, size, overlap) ==
    IF sentences = <<>>
    THEN IF current_chunk # <<>> THEN <<TextChunk(current_chunk)>> ELSE <<>>
    ELSE LET sentence == Head(sentences)
             rest == Tail(sentences)
         IN  IF sentence.len = 0
             THEN ChunkLoop(rest, current_chunk, current_length,
                            size, overlap)
             ELSE IF current_length + sentence.len > size
                     /\ current_chunk # <<>>
             THEN LET carried == Carry(current_chunk, size, overlap)
                  IN  <<TextChunk(current_chunk)>>
                      \o ChunkLoop(rest, Append(carried, sentence),
                                   JoinedLen(SentLens(carried)) + sentence.len,
                                   size, overlap)
             ELSE ChunkLoop(rest, Append(current_chunk, sentence),
                            current_length + sentence.len,
                            size, overlap)

\* A chunker without the table branch: a table is cut like any text.
SplitWithoutTableBranch(content, size, overlap) ==
    IF TrimLines(content) = <<>> THEN <<>>
    ELSE ChunkLoop(SentTokenize(content), <<>>, 0, size, overlap)

_split_text_with_overlap(content, size, overlap) ==
    IF TrimLines(content) = <<>> THEN <<>>
    ELSE IF IsTable(content) THEN <<TableChunk(TrimLines(content))>>
    ELSE ChunkLoop(SentTokenize(content), <<>>, 0, size, overlap)

(* ------------- unified_chunk_stream (process.py 150-158) --------------- *)

RECURSIVE UnifiedNoMinLen(_, _, _)
\* A chunk stream that skips no section, however short its content.
UnifiedNoMinLen(secs, size, overlap) ==
    IF secs = <<>> THEN <<>>
    ELSE LET sec == Head(secs)
             content == sec.content
             rest == UnifiedNoMinLen(Tail(secs), size, overlap)
             chunks == _split_text_with_overlap(content, size, overlap)
         IN  [i \in 1..Len(chunks) |->
                [chunk |-> chunks[i], section |-> sec.header,
                 type |-> IF IsTable(content) THEN "table" ELSE "text"]]
             \o rest

RECURSIVE unified_chunk_stream(_, _, _)
\* Every (chunk, header, type) of every section whose stripped content has
\* at least MinSectionLen characters, in order.
unified_chunk_stream(secs, size, overlap) ==
    IF secs = <<>> THEN <<>>
    ELSE LET sec == Head(secs)
             content == sec.content
             rest == unified_chunk_stream(Tail(secs), size, overlap)
             chunks == _split_text_with_overlap(content, size, overlap)
         IN  IF ContentLen(TrimLines(content)) < MinSectionLen THEN rest
             ELSE [i \in 1..Len(chunks) |->
                     [chunk |-> chunks[i], section |-> sec.header,
                      type |-> IF IsTable(content) THEN "table" ELSE "text"]]
                  \o rest

\* The state of process_document while rag_query is looked at.
IngestIdle ==
    /\ ipc = "idle"
    /\ text_content = [isStr |-> TRUE, lines |-> <<>>]
    /\ metadata = [isNone |-> TRUE, source |-> NoneVal]
    /\ chunk_size = 0
    /\ chunk_overlap = 0
    /\ batch_size = 0
    /\ get_or_create_calls = 0
    /\ sections = <<>>
    /\ chunk_stream = <<>>
    /\ full_stream = <<>>
    /\ batch = [docs |-> <<>>, metas |-> <<>>, ids |-> <<>>]
    /\ chunk_id_counter = 0
    /\ total_chunks = 0
    /\ submissions = <<>>
    /\ store = {}
    /\ outcome = [kind |-> "none", value |-> 0]

\* The state of a chunker call while another call is looked at.
ChunkIdle ==
    /\ cpc = "idle"
    /\ ctext = [isStr |-> TRUE, lines |-> <<>>]
    /\ csize = 0
    /\ coverlap = 0
    /\ yielded = <<>>

\* The state of a run_pipeline request while another call is looked at.
PipelineIdle ==
    /\ rpc = "idle"
    /\ request = [questions |-> <<>>, conversation_id |-> NoneVal]
    /\ live = {}
    /\ asked = <<>>
    /\ search_calls = 0
    /\ generate_calls = 0
    /\ pipeline_answers = <<>>
    /\ http_response = [status |-> 0, answers |-> <<>>]

\* No process_document call on a shared collection name is looked at.
CallsIdle ==
    /\ calls = <<>>
    /\ issued = <<>>

\* No run of the answer parsing is looked at.
ParseIdle ==
    /\ parse_pc = "idle"
    /\ parse_response = <<>>
    /\ parse_n = 0
    /\ parsed_answers = <<>>

\* The state of rag_query while process_document is looked at.
QueryIdle ==
    /\ pc = "idle"
    /\ collection = FALSE
    /\ query = StrQuery(<<>>)
    /\ conversation_history = ""
    /\ results = NoResults
    /\ contexts = <<>>
    /\ all_sources = {}
    /\ prompt = <<>>
    /\ final_response = <<>>
    /\ ret = NoRet
    /\ stages = <<>>
    /\ query_calls = <<>>
    /\ gen_calls = <<>>

(* ------------------------- rag_query, by stage ------------------------- *)

QueryInit ==
    /\ pc = "init"
    /\ collection \in BOOLEAN
    /\ query \in Queries
    /\ conversation_history \in Histories
    /\ results = NoResults
    /\ contexts = <<>>
    /\ all_sources = {}
    /\ prompt = <<>>
    /\ final_response = <<>>
    /\ ret = NoRet
    /\ stages = <<>>
    /\ query_calls = <<>>
    /\ gen_calls = <<>>
    /\ IngestIdle
    /\ ChunkIdle
    /\ PipelineIdle
    /\ CallsIdle
    /\ ParseIdle

\* query.py 62-80: the two short circuits, else on to the search.
Enter ==
    /\ pc = "init"
    /\ IF ~collection
       THEN pc' = "error_filled" /\ ret' = NoCollectionRet(query)
       ELSE IF query.items = <<>>
       THEN pc' = "error_filled" /\ ret' = InvalidQueryRet(query)
       ELSE pc' = "searching" /\ ret' = ret
    /\ UNCHANGED <<collection, query, conversation_history, results, contexts,
                   all_sources, prompt, final_response, stages, query_calls,
                   gen_calls>>
    /\ UNCHANGED <<ivars, cvars, pvars, mvars, avars>>

\* A search that queries the collection once per question.
SearchPerQuestion ==
    /\ pc = "searching"
    /\ stages' = Append(stages, "searching")
    /\ query_calls' = query_calls \o [i \in 1..Len(queries) |-> <<queries[i]>>]
    /\ \/ /\ pc' = "error_filled"
          /\ ret' = ErrorRet(is_single_query, Len(queries),
                             "Error searching documents", {})
          /\ results' = results
       \/ /\ pc' = "context"
          /\ results' \in SearchResults(Len(queries))
          /\ ret' = ret
    /\ UNCHANGED <<collection, query, conversation_history, contexts,
                   all_sources, prompt, final_response, gen_calls>>
    /\ UNCHANGED <<ivars, cvars, pvars, mvars, avars>>

\* query.py 82-95: one collection.query call, which returns or raises.
Search ==
    /\ pc = "searching"
    /\ stages' = Append(stages, "searching")
    /\ query_calls' = Append(query_calls, queries)
    /\ \/ /\ pc' = "error_filled"
          /\ ret' = SearchErrorRet(is_single_query, queries)
          /\ results' = results
       \/ /\ pc' = "context"
          /\ results' \in SearchResults(Len(queries))
          /\ ret' = ret
    /\ UNCHANGED <<collection, query, conversation_history, contexts,
                   all_sources, prompt, final_response, gen_calls>>
    /\ UNCHANGED <<ivars, cvars, pvars, mvars, avars>>

\* query.py 97-123: the contexts and sources; an exception of the loop body
\* reaches the outer handler (query.py 177-181).
BuildContexts ==
    /\ pc = "context"
    /\ stages' = Append(stages, "context_built")
    /\ LET r == ContextLoop(results, Len(queries), 1, <<>>, {})
       IN  IF r.raised
           THEN /\ pc' = OuterHandler(is_single_query, queries).pc
                /\ ret' = OuterHandler(is_single_query, queries).ret
                /\ UNCHANGED <<contexts, all_sources>>
           ELSE /\ pc' = "prompting"
                /\ contexts' = r.contexts
                /\ all_sources' = r.all_sources
                /\ ret' = ret
    /\ UNCHANGED <<collection, query, conversation_history, results, prompt,
                   final_response, query_calls, gen_calls>>
    /\ UNCHANGED <<ivars, cvars, pvars, mvars, avars>>

\* query.py 125-141
Prompting ==
    /\ pc = "prompting"
    /\ stages' = Append(stages, "prompting")
    /\ prompt' = BuildPrompt(queries, contexts, conversation_history)
    /\ pc' = "generating"
    /\ UNCHANGED <<collection, query, conversation_history, results, contexts,
                   all_sources, final_response, ret, query_calls, gen_calls>>
    /\ UNCHANGED <<ivars, cvars, pvars, mvars, avars>>

\* query.py 143-153: one generate_response call, which returns or raises.
Generate ==
    /\ pc = "generating"
    /\ stages' = Append(stages, "generating")
    /\ gen_calls' = Append(gen_calls, prompt)
    /\ \E reply \in {[askOk |-> FALSE, text |-> <<>>]}
                       \cup {[askOk |-> TRUE, text |-> t] : t \in Responses} :
          LET g == generate_response(reply.askOk, reply.text)
          IN  IF g.raised
              THEN /\ pc' = "error_filled"
                   /\ ret' = GenerationErrorRet(is_single_query, queries, all_sources)
                   /\ final_response' = final_response
              ELSE /\ pc' = "parsing"
                   /\ final_response' = g.value
                   /\ ret' = ret
    /\ UNCHANGED <<collection, query, conversation_history, results, contexts,
                   all_sources, prompt, query_calls>>
    /\ UNCHANGED <<ivars, cvars, pvars, mvars, avars>>

\* query.py 155-175
Parse ==
    /\ pc = "parsing"
    /\ stages' = Append(stages, "parsing")
    /\ ret' = AnswersRet(is_single_query,
                         Pad(ParsedAnswers(final_response), Len(queries)),
                         all_sources)
    /\ pc' = "done"
    /\ UNCHANGED <<collection, query, conversation_history, results, contexts,
                   all_sources, prompt, final_response, query_calls, gen_calls>>
    /\ UNCHANGED <<ivars, cvars, pvars, mvars, avars>>



(* ------------- process_document (process.py 117-211) ------------------- *)

collection_name == "doc"

EmptyBatch == [docs |-> <<>>, metas |-> <<>>, ids |-> <<>>]

NoOutcome == [kind |-> "none", value |-> 0]
Returned(n) == [kind |-> "returned", value |-> n]
Raised(what) == [kind |-> what, value |-> 0]

\* The shapes of a line: a short numbered header, a long numbered header
\* (the whole line is the marker), an annexure header followed by prose, a
\* prose line, a table row and a blank line.
LineShapes ==
    { [header |-> TRUE, title |-> "4. EXCLUSIONS", sents |-> <<13>>, pipes |-> 0],
      [header |-> TRUE, title |-> "12 Claims are settled within 30 days of intimation.",
       sents |-> <<51>>, pipes |-> 0],
      [header |-> TRUE, title |-> "Annexure II", sents |-> <<30, 40>>, pipes |-> 0],
      [header |-> FALSE, title |-> "", sents |-> <<40, 30>>, pipes |-> 0],
      [header |-> FALSE, title |-> "", sents |-> <<30>>, pipes |-> 2],
      [header |-> FALSE, title |-> "", sents |-> <<>>, pipes |-> 0] }

\* The text made of the given line shapes.
TextOf(shapes) ==
    [i \in 1..Len(shapes) |->
        [pos |-> i, header |-> shapes[i].header, title |-> shapes[i].title,
         sents |-> shapes[i].sents, pipes |-> shapes[i].pipes]]

\* "1. COVERAGE\nThis plan covers hospitalization.\n2. EXCLUSIONS\nDental is
\* excluded.": header_pattern matches "\n2. EXCLUSIONS" only.
SectionScenario ==
    TextOf(<<[header |-> TRUE, title |-> "1. COVERAGE", sents |-> <<11>>, pipes |-> 0],
             [header |-> FALSE, title |-> "", sents |-> <<33>>, pipes |-> 0],
             [header |-> TRUE, title |-> "2. EXCLUSIONS", sents |-> <<13>>, pipes |-> 0],
             [header |-> FALSE, title |-> "", sents |-> <<19>>, pipes |-> 0]>>)

\* "|A|B|\n|1|2|\n|3|4|\n|5|6|": four rows of five characters, three of them
\* pipes; no row starts with a marker of header_pattern.
TableScenario ==
    TextOf([i \in 1..4 |->
              [header |-> FALSE, title |-> "", sents |-> <<5>>, pipes |-> 3]])

\* The text_content arguments: strings of up to MaxTextLines lines, the two
\* texts above, and a value that is no string.
Texts ==
    { [isStr |-> TRUE, lines |-> TextOf(q)] : q \in SeqsUpTo(LineShapes, MaxTextLines) }
    \cup { [isStr |-> TRUE, lines |-> SectionScenario],
           [isStr |-> TRUE, lines |-> TableScenario] }
    \cup { [isStr |-> FALSE, lines |-> <<>>] }

\* The metadata arguments: None, {} and a dict with a source.
Metadatas ==
    { [isNone |-> TRUE, source |-> NoneVal],
      [isNone |-> FALSE, source |-> NoneVal],
      [isNone |-> FALSE, source |-> "policy.pdf"] }

ChunkSizes == {50, 100}

\* chunk_size: int = 1000 (process.py 121)
DefaultChunkSize == 1000

\* The chunk_size arguments followed for a text: the default as well for the
\* two texts given in full above.
ChunkSizesFor(text) ==
    IF text.lines \in {SectionScenario, TableScenario}
    THEN ChunkSizes \cup {DefaultChunkSize}
    ELSE ChunkSizes
ChunkOverlaps == {0, 20}
BatchSizes == -1..MaxBatch

\* The largest number of submissions of an empty batch that are recorded;
\* the loop goes on after them, the further ones unrecorded.
MaxEmptySubmissions == 2

\* An input check that leaves out `not text_content.strip()`.
InvalidTextNoStrip(text) == ~text.isStr \/ text.lines = <<>>

\* `not text_content or not isinstance(text_content, str) or not
\* text_content.strip()` (process.py 129)
InvalidText(text) == ~text.isStr \/ TrimLines(text.lines) = <<>>

\* The id of record n (process.py 181).
ChunkId(name, n) == <<name, "_chunk_", n>>

\* {**metadata, "chunk_number": ..., "section": ..., "type": ...}
ChunkMeta(base, n, section, type) ==
    [source |-> base.source, chunk_number |-> n, section |-> section, type |-> type]

RECURSIVE FillLoop(_, _, _, _)
\* The body of `for _ in range(batch_size)` over the items pulled from the
\* stream (process.py 171-182): the batch and the counter after it.
FillLoop(items, b, counter, base) ==
    IF items = <<>> THEN [batch |-> b, counter |-> counter]
    ELSE LET item == Head(items)
         IN  IF item.chunk.len = 0
             THEN FillLoop(Tail(items), b, counter, base)
             ELSE FillLoop(Tail(items),
                           [docs |-> Append(b.docs, item.chunk),
                            metas |-> Append(b.metas,
                                ChunkMeta(base, counter, item.section, item.type)),
                            ids |-> Append(b.ids, ChunkId(collection_name, counter))],
                           counter + 1, base)

\* A pass of the batch-filling loop that does not see the end of the stream.
FillNeverStops(stream, size, counter, base) ==
    LET n == IF size > 0 THEN Min(size, Len(stream)) ELSE 0
        filled == FillLoop(SubSeq(stream, 1, n), EmptyBatch, counter, base)
    IN  [batch |-> filled.batch, counter |-> filled.counter,
         stream |-> SubSeq(stream, n + 1, Len(stream)),
         stopped |-> FALSE]

\* A pass of the batch-filling loop that runs range(batch_size + 1).
FillOneMore(stream, size, counter, base) ==
    LET n == IF size > 0 THEN Min(size + 1, Len(stream)) ELSE 0
        filled == FillLoop(SubSeq(stream, 1, n), EmptyBatch, counter, base)
    IN  [batch |-> filled.batch, counter |-> filled.counter,
         stream |-> SubSeq(stream, n + 1, Len(stream)),
         stopped |-> size > 0 /\ Len(stream) < size + 1]

\* A pass of the batch-filling loop that leaves the loop as soon as the
\* stream ends, whatever the batch holds.
FillDropsPartial(stream, size, counter, base) ==
    LET n == IF size > 0 THEN Min(size, Len(stream)) ELSE 0
        filled == FillLoop(SubSeq(stream, 1, n), EmptyBatch, counter, base)
        stopped == size > 0 /\ Len(stream) < size
    IN  [batch |-> IF stopped THEN EmptyBatch ELSE filled.batch,
         counter |-> IF stopped THEN counter ELSE filled.counter,
         stream |-> SubSeq(stream, n + 1, Len(stream)),
         stopped |-> stopped]

\* A pass of the batch-filling loop that numbers its records from 0.
FillFromZero(stream, size, counter, base) ==
    LET n == IF size > 0 THEN Min(size, Len(stream)) ELSE 0
        filled == FillLoop(SubSeq(stream, 1, n), EmptyBatch, 0, base)
    IN  [batch |-> filled.batch, counter |-> filled.counter,
         stream |-> SubSeq(stream, n + 1, Len(stream)),
         stopped |-> size > 0 /\ Len(stream) < size]

\* One pass of the batch-filling loop (process.py 164-182): batch_size items
\* are pulled from the stream, fewer when it ends, none when batch_size <= 0;
\* the counter goes on from where the batch before left it.
FillFrom(stream, size, counter, base) ==
    LET n == IF size > 0 THEN Min(size, Len(stream)) ELSE 0
        filled == FillLoop(SubSeq(stream, 1, n), EmptyBatch, counter, base)
    IN  [batch |-> filled.batch, counter |-> filled.counter,
         stream |-> SubSeq(stream, n + 1, Len(stream)),
         stopped |-> size > 0 /\ Len(stream) < size]

\* The records of a batch, as the collection stores them.
BatchRecords(b) ==
    { [id |-> b.ids[i], text |-> b.docs[i], metadata |-> b.metas[i]] :
        i \in 1..Len(b.ids) }

IngestInit ==
    /\ ipc = "start"
    /\ text_content \in Texts
    /\ metadata \in Metadatas
    /\ chunk_size \in ChunkSizesFor(text_content)
    /\ chunk_overlap \in ChunkOverlaps
    /\ batch_size \in BatchSizes
    /\ get_or_create_calls = 0
    /\ sections = <<>>
    /\ chunk_stream = <<>>
    /\ full_stream = <<>>
    /\ batch = EmptyBatch
    /\ chunk_id_counter = 0
    /\ total_chunks = 0
    /\ submissions = <<>>
    /\ store = {}
    /\ outcome = NoOutcome
    /\ QueryIdle
    /\ ChunkIdle
    /\ PipelineIdle
    /\ CallsIdle
    /\ ParseIdle

\* process.py 129-160: the input check, the collection, the sections and
\* the chunk stream.
Start ==
    /\ ipc = "start"
    /\ \/ /\ InvalidText(text_content)
          /\ ipc' = "raised"
          /\ outcome' = Raised("ValueError")
          /\ UNCHANGED <<metadata, get_or_create_calls, sections, chunk_stream,
                         full_stream>>
       \/ /\ ~InvalidText(text_content)
          /\ ipc' = "raised"
          /\ outcome' = Raised("CollectionError")
          /\ get_or_create_calls' = get_or_create_calls + 1
          /\ UNCHANGED <<metadata, sections, chunk_stream, full_stream>>
       \/ /\ ~InvalidText(text_content)
          /\ ipc' = "fill"
          /\ metadata' = [metadata EXCEPT !.isNone = FALSE]
          /\ get_or_create_calls' = get_or_create_calls + 1
          /\ sections' = _split_into_sections(text_content.lines)
          /\ chunk_stream' = unified_chunk_stream(
                 _split_into_sections(text_content.lines), chunk_size, chunk_overlap)
          /\ full_stream' = chunk_stream'
          /\ outcome' = outcome
    /\ UNCHANGED <<text_content, chunk_size, chunk_overlap, batch_size, batch,
                   chunk_id_counter, total_chunks, submissions, store>>
    /\ UNCHANGED <<qvars, cvars, pvars, mvars, avars>>

\* process.py 163-185: fill a batch from the stream; when the stream ends
\* with the batch still empty, leave the loop and return (process.py 204-205).
FillBatch ==
    /\ ipc = "fill"
    /\ LET f == FillFrom(chunk_stream, batch_size, chunk_id_counter, metadata)
       IN  /\ chunk_stream' = f.stream
           /\ chunk_id_counter' = f.counter
           /\ batch' = f.batch
           /\ IF f.stopped /\ f.batch.docs = <<>>
              THEN ipc' = "returned" /\ outcome' = Returned(total_chunks)
              ELSE ipc' = "submit" /\ outcome' = outcome
    /\ UNCHANGED <<text_content, metadata, chunk_size, chunk_overlap, batch_size,
                   get_or_create_calls, sections, full_stream, total_chunks,
                   submissions, store>>
    /\ UNCHANGED <<qvars, cvars, pvars, mvars, avars>>

\* A collection.add call whose failure ends process_document with the error.
SubmitAborts ==
    /\ ipc = "submit"
    /\ \E ok \in BOOLEAN :
          /\ submissions' =
                IF batch.docs = <<>> /\ Len(submissions) >= MaxEmptySubmissions
                THEN submissions
                ELSE Append(submissions,
                            [docs |-> batch.docs, metas |-> batch.metas,
                             ids |-> batch.ids, ok |-> ok])
          /\ IF ok
             THEN /\ store' = store \cup BatchRecords(batch)
                  /\ total_chunks' = total_chunks + Len(batch.docs)
                  /\ ipc' = "fill"
                  /\ outcome' = outcome
             ELSE /\ ipc' = "raised"
                  /\ outcome' = Raised("AddError")
                  /\ UNCHANGED <<store, total_chunks>>
    /\ batch' = EmptyBatch
    /\ UNCHANGED <<text_content, metadata, chunk_size, chunk_overlap, batch_size,
                   get_or_create_calls, sections, chunk_stream, full_stream,
                   chunk_id_counter>>
    /\ UNCHANGED <<qvars, cvars, pvars, mvars, avars>>

\* process.py 187-202: one collection.add call, which succeeds or raises;
\* either way the loop goes on with the next batch.
Submit ==
    /\ ipc = "submit"
    /\ \E ok \in BOOLEAN :
          /\ submissions' =
                IF batch.docs = <<>> /\ Len(submissions) >= MaxEmptySubmissions
                THEN submissions
                ELSE Append(submissions,
                            [docs |-> batch.docs, metas |-> batch.metas,
                             ids |-> batch.ids, ok |-> ok])
          /\ IF ok
             THEN /\ store' = store \cup BatchRecords(batch)
                  /\ total_chunks' = total_chunks + Len(batch.docs)
             ELSE UNCHANGED <<store, total_chunks>>
    /\ batch' = EmptyBatch
    /\ ipc' = "fill"
    /\ UNCHANGED <<text_content, metadata, chunk_size, chunk_overlap, batch_size,
                   get_or_create_calls, sections, chunk_stream, full_stream,
                   chunk_id_counter, outcome>>
    /\ UNCHANGED <<qvars, cvars, pvars, mvars, avars>>

(* ------------- one _split_text_with_overlap call ------------------------ *)

\* The largest number of lines of the text of a chunker call.
MaxChunkLines == 3

\* The shapes of a line of the text: one sentence, two sentences, a sentence
\* longer than the chunk sizes, a row with 2 pipes, a row with 4 pipes, a
\* line longer than the prefix that starts with a pipe, and a blank line.
ChunkLineShapes ==
    { [header |-> FALSE, title |-> "", sents |-> <<40>>, pipes |-> 0],
      [header |-> FALSE, title |-> "", sents |-> <<30, 60>>, pipes |-> 0],
      [header |-> FALSE, title |-> "", sents |-> <<120>>, pipes |-> 0],
      [header |-> FALSE, title |-> "", sents |-> <<20>>, pipes |-> 2],
      [header |-> FALSE, title |-> "", sents |-> <<20>>, pipes |-> 4],
      [header |-> FALSE, title |-> "", sents |-> <<310>>, pipes |-> 1],
      [header |-> FALSE, title |-> "", sents |-> <<>>, pipes |-> 0] }

\* "Go! Go! ... Go!": one line of eighteen sentences of three characters.
ShortSentencesScenario ==
    TextOf(<<[header |-> FALSE, title |-> "", sents |-> [k \in 1..18 |-> 3],
              pipes |-> 0]>>)

\* The line of short sentences, then a sentence longer than the chunk sizes
\* and one sentence more, each on its line.
ShortThenLongScenario ==
    TextOf(<<[header |-> FALSE, title |-> "", sents |-> [k \in 1..18 |-> 3],
              pipes |-> 0],
             [header |-> FALSE, title |-> "", sents |-> <<120>>, pipes |-> 0],
             [header |-> FALSE, title |-> "", sents |-> <<40>>, pipes |-> 0]>>)

\* The text arguments: strings of up to MaxChunkLines lines, the table of
\* four rows, the two texts of short sentences, and a value that is no
\* string.
ChunkTexts ==
    { [isStr |-> TRUE, lines |-> TextOf(q)] :
        q \in SeqsUpTo(ChunkLineShapes, MaxChunkLines) }
    \cup { [isStr |-> TRUE, lines |-> TableScenario],
           [isStr |-> TRUE, lines |-> ShortSentencesScenario],
           [isStr |-> TRUE, lines |-> ShortThenLongScenario] }
    \cup { [isStr |-> FALSE, lines |-> <<>>] }

ChunkInit ==
    /\ cpc = "call"
    /\ ctext \in ChunkTexts
    /\ csize \in ChunkSizes \cup {DefaultChunkSize}
    /\ coverlap \in ChunkOverlaps
    /\ yielded = <<>>
    /\ QueryIdle
    /\ IngestIdle
    /\ PipelineIdle
    /\ CallsIdle
    /\ ParseIdle

\* list(_split_text_with_overlap(text, chunk_size, chunk_overlap)): a value
\* that is no string yields nothing (process.py 72-73).
Call ==
    /\ cpc = "call"
    /\ cpc' = "returned"
    /\ yielded' = IF ctext.isStr
                  THEN _split_text_with_overlap(ctext.lines, csize, coverlap)
                  ELSE <<>>
    /\ UNCHANGED <<ctext, csize, coverlap>>
    /\ UNCHANGED <<qvars, ivars, pvars, mvars, avars>>

(* ------------- run_pipeline (api/main.py 121-218) ---------------------- *)

\* The largest number of questions of a request.
MaxQuestions == 3

\* The requests: one to MaxQuestions questions, empty strings among them,
\* with or without a conversation_id.
Requests ==
    { [questions |-> qs, conversation_id |-> c] :
        qs \in SeqsUpTo({"q1", "q2", ""}, MaxQuestions) \ {<<>>},
        c \in {NoneVal, "c"} }

\* collection_name = f"doc_{uuid.uuid4().hex}" (main.py 155)
pipeline_collection == "doc_uuid"

\* What one rag_query(collection, question, ...) call with a string question
\* may do (query.py 71-181): whether it calls collection.query, whether it
\* calls generate_response, and the kind of answer it returns.  It raises
\* nothing.
RagQueryOutcomes(question) ==
    IF question = ""
    THEN { [searched |-> FALSE, generated |-> FALSE, answer |-> "invalid_query"] }
    ELSE { [searched |-> TRUE, generated |-> FALSE, answer |-> "search_error"],
           [searched |-> TRUE, generated |-> FALSE, answer |-> "unexpected_error"],
           [searched |-> TRUE, generated |-> TRUE, answer |-> "generation_error"],
           [searched |-> TRUE, generated |-> TRUE, answer |-> "answer"] }

NoResponse == [status |-> 0, answers |-> <<>>]

\* `except Exception as e: raise HTTPException(500, ...)` (main.py 210-214),
\* which also takes the HTTPException raised inside the try block.
ErrorResponse == [status |-> 500, answers |-> <<>>]

PipelineInit ==
    /\ rpc = "download"
    /\ request \in Requests
    /\ live = {}
    /\ asked = <<>>
    /\ search_calls = 0
    /\ generate_calls = 0
    /\ pipeline_answers = <<>>
    /\ http_response = NoResponse
    /\ QueryIdle
    /\ IngestIdle
    /\ ChunkIdle
    /\ CallsIdle
    /\ ParseIdle

\* main.py 135-152: download_file and read_document; either may raise, and
\* an empty text is refused.
Fetch ==
    /\ rpc = "download"
    /\ \E ok \in BOOLEAN :
          IF ok THEN rpc' = "ingest" /\ http_response' = http_response
                ELSE rpc' = "responded" /\ http_response' = ErrorResponse
    /\ UNCHANGED <<request, live, asked, search_calls, generate_calls,
                   pipeline_answers>>
    /\ UNCHANGED <<qvars, ivars, cvars, mvars, avars>>

\* main.py 155-169: process_document on a new collection name; it creates
\* the collection and returns, or fails to create it and raises.
Ingest ==
    /\ rpc = "ingest"
    /\ \E created \in BOOLEAN :
          IF created
          THEN /\ live' = live \cup {pipeline_collection}
               /\ rpc' = "get_collection"
               /\ http_response' = http_response
          ELSE /\ live' = live
               /\ rpc' = "responded"
               /\ http_response' = ErrorResponse
    /\ UNCHANGED <<request, asked, search_calls, generate_calls, pipeline_answers>>
    /\ UNCHANGED <<qvars, ivars, cvars, mvars, avars>>

\* main.py 172-185: client.get_collection, which returns the collection or
\* raises (or returns None).
GetCollection ==
    /\ rpc = "get_collection"
    /\ \E ok \in BOOLEAN :
          IF ok THEN rpc' = "questions" /\ http_response' = http_response
                ELSE rpc' = "responded" /\ http_response' = ErrorResponse
    /\ UNCHANGED <<request, live, asked, search_calls, generate_calls,
                   pipeline_answers>>
    /\ UNCHANGED <<qvars, ivars, cvars, mvars, avars>>

\* main.py 191-199: one turn of `for question in request.questions`, a
\* rag_query call with that question; after the last, on to the clean-up.
Ask ==
    /\ rpc = "questions"
    /\ LET question == request.questions[Len(asked) + 1]
       IN  /\ \E o \in RagQueryOutcomes(question) :
                 /\ search_calls' = search_calls + (IF o.searched THEN 1 ELSE 0)
                 /\ generate_calls' = generate_calls + (IF o.generated THEN 1 ELSE 0)
                 /\ pipeline_answers' = Append(pipeline_answers, o.answer)
           /\ asked' = Append(asked, question)
    /\ rpc' = IF Len(asked) + 1 = Len(request.questions) THEN "delete" ELSE "questions"
    /\ UNCHANGED <<request, live, http_response>>
    /\ UNCHANGED <<qvars, ivars, cvars, mvars, avars>>

\* main.py 202-214: client.delete_collection, then the response; when the
\* deletion raises the request ends with the error.
Delete ==
    /\ rpc = "delete"
    /\ \E ok \in BOOLEAN :
          IF ok
          THEN /\ live' = live \ {pipeline_collection}
               /\ http_response' = [status |-> 200, answers |-> pipeline_answers]
          ELSE /\ live' = live
               /\ http_response' = ErrorResponse
    /\ rpc' = "responded"
    /\ UNCHANGED <<request, asked, search_calls, generate_calls, pipeline_answers>>
    /\ UNCHANGED <<qvars, ivars, cvars, mvars, avars>>

(* ------- process_document calls on one collection name ----------------- *)

\* The largest number of process_document calls on the collection name.
MaxCalls == 2

\* The texts of the calls: a prose line of two sentences (two chunks), and
\* an annexure header with its prose followed by that line (four chunks).
CallTexts ==
    { TextOf(<<[header |-> FALSE, title |-> "", sents |-> <<40, 30>>, pipes |-> 0]>>),
      TextOf(<<[header |-> TRUE, title |-> "Annexure II", sents |-> <<30, 40>>,
                pipes |-> 0],
               [header |-> FALSE, title |-> "", sents |-> <<40, 30>>, pipes |-> 0]>>) }

\* The chunk_size and chunk_overlap of the calls.
CallChunkSizes == {50}
CallChunkOverlaps == {0}

\* A call that has not begun: its arguments, and the locals of
\* process_document before line 129.
NewCall(text, csz, cov, bsz) ==
    [at |-> "start", text |-> text, chunk_size |-> csz, chunk_overlap |-> cov,
     size |-> bsz, stream |-> <<>>, batch |-> EmptyBatch, counter |-> 0]

CallsInit ==
    /\ calls \in [1..MaxCalls ->
                     { NewCall(t, csz, cov, bsz) :
                         t \in CallTexts, csz \in CallChunkSizes,
                         cov \in CallChunkOverlaps, bsz \in 1..MaxBatch }]
    /\ issued = <<>>
    /\ QueryIdle
    /\ IngestIdle
    /\ ChunkIdle
    /\ PipelineIdle
    /\ ParseIdle

\* process.py 129-160 of call c: get_or_create_collection hands the call
\* the collection of that name, chunk_id_counter = 0 (line 147), and the
\* chunk stream of the text.
CallStart(c) ==
    /\ calls[c].at = "start"
    /\ calls' = [calls EXCEPT
                   ![c].at = "fill",
                   ![c].counter = 0,
                   ![c].stream = unified_chunk_stream(
                       _split_into_sections(calls[c].text),
                       calls[c].chunk_size, calls[c].chunk_overlap)]
    /\ UNCHANGED issued
    /\ UNCHANGED <<qvars, ivars, cvars, pvars, avars>>

\* process.py 163-185 of call c: fill a batch, numbering its records from
\* the call's own chunk_id_counter.
CallFill(c) ==
    /\ calls[c].at = "fill"
    /\ LET f == FillFrom(calls[c].stream, calls[c].size, calls[c].counter,
                         [isNone |-> FALSE, source |-> NoneVal])
       IN  calls' = [calls EXCEPT
                       ![c].stream = f.stream,
                       ![c].counter = f.counter,
                       ![c].batch = f.batch,
                       ![c].at = IF f.stopped /\ f.batch.docs = <<>>
                                 THEN "returned" ELSE "submit"]
    /\ UNCHANGED issued
    /\ UNCHANGED <<qvars, ivars, cvars, pvars, avars>>

\* process.py 187-202 of call c: collection.add with the ids of the batch;
\* whether it returns or raises, the call goes on with the next batch.
CallSubmit(c) ==
    /\ calls[c].at = "submit"
    /\ issued' = Append(issued, [call |-> c, ids |-> calls[c].batch.ids])
    /\ calls' = [calls EXCEPT ![c].batch = EmptyBatch, ![c].at = "fill"]
    /\ UNCHANGED <<qvars, ivars, cvars, pvars, avars>>

(* ------------- the answer parsing alone (query.py 155-164) ------------- *)

\* The largest number of lines of a response handed to the parsing.
MaxParseLines == 2

\* Lines of a response: those of ResponseLines and, besides, an answer that
\* starts with digits ("30 d"), that answer enumerated ("1. 30 d"), an
\* enumerator with nothing after it ("1.") and a number alone ("3").
ParseLines ==
    ResponseLines
    \cup { <<"3", "0", " ", "d">>, <<"1", ".", " ", "3", "0", " ", "d">>,
           <<"1", ".">>, <<"3">> }

ParseInit ==
    /\ parse_pc = "parse"
    /\ parse_response \in SeqsUpTo(ParseLines, MaxParseLines)
    /\ parse_n \in 1..MaxQ
    /\ parsed_answers = <<>>
    /\ QueryIdle
    /\ IngestIdle
    /\ ChunkIdle
    /\ PipelineIdle
    /\ CallsIdle

\* query.py 155-164: raw_answers, the enumerators removed, the padding.
ParseAnswers ==
    /\ parse_pc = "parse"
    /\ parse_pc' = "returned"
    /\ parsed_answers' = Pad(ParsedAnswers(parse_response), parse_n)
    /\ UNCHANGED <<parse_response, parse_n>>
    /\ UNCHANGED <<qvars, ivars, cvars, pvars, mvars>>

(* ------------------------- the specifications -------------------------- *)

\* One rag_query call.
Next == Enter \/ Search \/ BuildContexts \/ Prompting \/ Generate \/ Parse

Spec == QueryInit /\ [][Next]_vars

\* One process_document call.
IngestNext == Start \/ FillBatch \/ Submit

SpecIngest == IngestInit /\ [][IngestNext]_vars

\* The texts of the calls followed to their end: an annexure header with
\* its prose, prose lines and blank lines.
FairTexts ==
    { [isStr |-> TRUE, lines |-> TextOf(q)] :
        q \in SeqsUpTo({ l \in LineShapes :
                            l.pipes = 0 /\ Len(l.sents) # 1 }, MaxTextLines) }

IngestFairInit ==
    /\ ipc = "start"
    /\ text_content \in FairTexts
    /\ metadata = [isNone |-> FALSE, source |-> "policy.pdf"]
    /\ chunk_size \in ChunkSizes
    /\ chunk_overlap \in ChunkOverlaps
    /\ batch_size \in BatchSizes
    /\ get_or_create_calls = 0
    /\ sections = <<>>
    /\ chunk_stream = <<>>
    /\ full_stream = <<>>
    /\ batch = EmptyBatch
    /\ chunk_id_counter = 0
    /\ total_chunks = 0
    /\ submissions = <<>>
    /\ store = {}
    /\ outcome = NoOutcome
    /\ QueryIdle
    /\ ChunkIdle
    /\ PipelineIdle
    /\ CallsIdle
    /\ ParseIdle

\* One process_document call that is not suspended for ever: the call runs
\* in one thread and every call it makes returns or raises.
SpecIngestFair == IngestFairInit /\ [][IngestNext]_vars /\ WF_vars(IngestNext)

\* One run_pipeline request.
PipelineNext == Fetch \/ Ingest \/ GetCollection \/ Ask \/ Delete

SpecPipeline == PipelineInit /\ [][PipelineNext]_vars

\* process_document calls on one collection name, one after another or
\* interleaved at their collection.add calls.
CallsNext == \E c \in 1..MaxCalls : CallStart(c) \/ CallFill(c) \/ CallSubmit(c)

SpecCalls == CallsInit /\ [][CallsNext]_vars

\* One run of the answer parsing.
ParseNext == ParseAnswers

SpecParse == ParseInit /\ [][ParseNext]_vars

\* One _split_text_with_overlap call, its chunks collected.
ChunkNext == Call

SpecChunk == ChunkInit /\ [][ChunkNext]_vars

(* ============================ the claims =============================== *)

Terminal == pc \in {"done", "error_filled"}

\* The (answer, sources) tuple of an error message with no source.
ErrorTuple(msg) == [answer |-> [k |-> "error", v |-> <<msg>>], sources |-> {}]

\* The non-blank lines of the response, in response order.
ResponseAnswers == SelectSeq(final_response, NonBlank)

\* Whether every question got an empty neighbour list from the search.
AllNeighbourListsEmpty ==
    /\ results.k = "dict" /\ results.hasDocs /\ results.hasMetas
    /\ Len(results.documents) = Len(queries)
    /\ \A i \in 1..Len(queries) :
          results.documents[i] = [k |-> "list", v |-> <<>>]

(* C1: for every rag_query call with a collection and a list of N >= 1     *)
(* questions the returned list has exactly N entries, whatever the search  *)
(* result and the generated response are.                                  *)
C1_ResultLengthIsQuestionCount ==
    (Terminal /\ collection /\ query.isList /\ Len(queries) >= 1)
        => (ret.shape = "list" /\ Len(ret.items) = Len(queries))

(* C2: with k non-blank response lines and N questions, result i for       *)
(* 1 <= i <= min(k, N) carries the i-th non-blank line with its enumerator *)
(* stripped and results k+1..N carry the sentinel, the call returning a    *)
(* value whatever k is; 3 questions with empty neighbour lists and a       *)
(* 1-line response give the parsed line and two sentinels, all with no     *)
(* source.                                                                 *)
C2_AnswersAlignedAndPadded ==
    pc = "done" =>
        LET k == Len(ResponseAnswers)
            n == Len(queries)
        IN  /\ Len(ret.items) >= (IF query.isList THEN n ELSE 1)
            /\ \A i \in 1..Min(k, Len(ret.items)) :
                  ret.items[i].answer =
                      [k |-> "text",
                       v |-> StripEnumerator(Strip(ResponseAnswers[i]))]
            /\ \A i \in (k + 1)..n :
                  ret.items[i].answer = [k |-> "sentinel", v |-> <<>>]
            /\ (n = 3 /\ k = 1 /\ AllNeighbourListsEmpty) =>
                  /\ Len(ret.items) = 3
                  /\ \A i \in 1..3 : ret.items[i].sources = {}

\* The scenario of C2: 3 questions, empty neighbour lists, a 1-line response.
C2_Witness ==
    /\ pc = "done" /\ query.isList /\ Len(queries) = 3
    /\ Len(ResponseAnswers) = 1 /\ AllNeighbourListsEmpty
    /\ ret.items[2].answer = SentinelAnswer

StageOrder ==
    <<"searching", "context_built", "prompting", "generating", "parsing">>

\* The number of stages that have run when rag_query is at `at`.
StagesBefore(at) ==
    CASE at = "init" -> {0}
      [] at = "searching" -> {0}
      [] at = "context" -> {1}
      [] at = "prompting" -> {2}
      [] at = "generating" -> {3}
      [] at = "parsing" -> {4}
      [] at = "done" -> {5}
      [] at = "error_filled" -> {0, 1, 2, 4}
      [] OTHER -> {}

(* C4: a call passes through searching, context building, prompt building,*)
(* generating and parsing in that order, each at most once; it never       *)
(* raises: until it returns it is at one of its stages, and it ends with a *)
(* returned value in DONE or ERROR_FILLED; after a failed search no        *)
(* generation call is made.                                                *)
C4_StagesInOrderNeverRaises ==
    /\ stages = SubSeq(StageOrder, 1, Len(stages))
    /\ Len(stages) \in StagesBefore(pc)
    /\ ~Terminal =>
         /\ ret = NoRet
         /\ pc \in {"init", "searching", "context", "prompting", "generating",
                    "parsing"}
    /\ Terminal => ret # NoRet
    /\ (pc = "error_filled" /\ Len(stages) <= 2) => gen_calls = <<>>

\* A call whose context building failed and was turned into a result.
C4_Witness ==
    pc = "error_filled" /\ stages = <<"searching", "context_built">>

(* C5: when collection.query fails, a list of N questions gets exactly N   *)
(* tuples, each the search-error string with an empty source list, a       *)
(* single string query gets one such tuple, and the generator is not       *)
(* called.                                                                 *)
C5_SearchFailureFillsEverySlot ==
    (pc = "error_filled" /\ stages = <<"searching">>) =>
        /\ gen_calls = <<>>
        /\ IF query.isList
           THEN /\ ret.shape = "list"
                /\ Len(ret.items) = Len(query.items)
                /\ \A i \in 1..Len(ret.items) :
                      ret.items[i] = ErrorTuple("Error searching documents")
           ELSE /\ ret.shape = "tuple"
                /\ ret.items = <<ErrorTuple("Error searching documents")>>

\* A failed search for a list of several questions.
C5_Witness ==
    /\ pc = "error_filled" /\ stages = <<"searching">>
    /\ query.isList /\ Len(query.items) >= 2

(* C6: when the generation call fails during a multi-question call, every  *)
(* one of the N slots holds an error answer and an empty source list.      *)
C6_GenerationFailureHasNoSources ==
    (pc = "error_filled" /\ Len(stages) = 4 /\ query.isList
        /\ Len(query.items) >= 2) =>
        /\ Len(ret.items) = Len(query.items)
        /\ \A i \in 1..Len(ret.items) :
              /\ ret.items[i].answer.k = "error"
              /\ ret.items[i].sources = {}

\* Whether the search result holds, for question idx, a documents entry and
\* a metadatas entry that are both lists.
WellFormedFor(res, idx) ==
    /\ res.k = "dict" /\ res.hasDocs /\ res.hasMetas
    /\ idx <= Len(res.documents) /\ idx <= Len(res.metadatas)
    /\ res.documents[idx].k = "list"
    /\ res.metadatas[idx].k = "list"

(* C7: when the search result is missing or malformed for some question    *)
(* index, only that question gets an empty context: the other questions    *)
(* keep their contexts, the generation call is still made, and the batch   *)
(* is not turned into an all-error result.                                 *)
C7_MalformedIndexOnlyEmptiesItsContext ==
    (/\ Len(stages) >= 2
     /\ query.isList
     /\ \E idx \in 1..Len(queries) : WellFormedFor(results, idx)
     /\ \E idx \in 1..Len(queries) : ~WellFormedFor(results, idx)) =>
        /\ ~(pc = "error_filled" /\ Len(stages) = 2)
        /\ Len(contexts) = Len(queries)
        /\ \A idx \in 1..Len(contexts) :
              contexts[idx] =
                  IF WellFormedFor(results, idx)
                  THEN ContextParts(ZipResults(results.documents[idx].v,
                                               results.metadatas[idx].v), 1)
                  ELSE <<>>

(* C8: with a falsy collection or an empty query, rag_query returns at     *)
(* once, calling neither collection.query nor the generator: one error     *)
(* tuple with no source per question for a list (none for an empty list),  *)
(* a single error tuple for a string.                                      *)
C8_ShortCircuit ==
    (pc # "init" /\ (~collection \/ query.items = <<>>)) =>
        LET msg == IF ~collection THEN "No collection provided for RAG query"
                                  ELSE "Invalid query provided"
        IN  /\ pc = "error_filled"
            /\ stages = <<>>
            /\ query_calls = <<>>
            /\ gen_calls = <<>>
            /\ IF query.isList
               THEN /\ ret.shape = "list"
                    /\ Len(ret.items) = Len(query.items)
                    /\ \A i \in 1..Len(ret.items) : ret.items[i] = ErrorTuple(msg)
               ELSE /\ ret.shape = "tuple"
                    /\ ret.items = <<ErrorTuple(msg)>>

\* A list of several questions asked without a collection.
C8_Witness ==
    /\ pc = "error_filled" /\ ~collection
    /\ query.isList /\ Len(query.items) >= 2

\* The passages retrieved for question idx: the (document, metadata) pairs
\* of its neighbour lists.
RetrievedFor(res, idx) ==
    IF res.k = "dict" /\ res.hasDocs /\ res.hasMetas
       /\ idx <= Len(res.documents) /\ idx <= Len(res.metadatas)
    THEN { <<res.documents[idx].v[j], res.metadatas[idx].v[j]>> :
             j \in 1..Min(Len(res.documents[idx].v), Len(res.metadatas[idx].v)) }
    ELSE {}

\* The non-empty string `source` values of the passages retrieved for the
\* questions 1..n.
RetrievedSources(res, n) ==
    { p[2].source :
        p \in { r \in UNION { RetrievedFor(res, idx) : idx \in 1..n } :
                  r[2].isDict /\ r[2].source \notin {NoneVal, IntVal, ""} } }

(* C9: on a multi-question call that reaches parsing, every returned tuple *)
(* carries the same sources, the union over all question indices of the    *)
(* string `source` values of the passages retrieved for that index; it is  *)
(* empty exactly when no retrieved passage has a source.                   *)
C9_EveryAnswerCarriesAllSources ==
    (pc = "done" /\ query.isList) =>
        \A i \in 1..Len(ret.items) :
            ret.items[i].sources = RetrievedSources(results, Len(queries))

\* A finished multi-question call whose sources come from two questions.
C9_Witness ==
    /\ pc = "done" /\ query.isList /\ Len(queries) >= 2
    /\ ret.items[1].sources = {"s1", "s2"}
    /\ ret.items[Len(ret.items)].answer = SentinelAnswer

RECURSIVE SubmittedIds(_)
\* The ids of every record handed to collection.add, in submission order.
SubmittedIds(subs) ==
    IF subs = <<>> THEN <<>> ELSE Head(subs).ids \o SubmittedIds(Tail(subs))

RECURSIVE SubmittedMetas(_)
\* The metadata of every record handed to collection.add, in that order.
SubmittedMetas(subs) ==
    IF subs = <<>> THEN <<>> ELSE Head(subs).metas \o SubmittedMetas(Tail(subs))

(* C10: within one process_document call every record handed to the vector *)
(* store has an id {collection_name}_chunk_{n} with metadata chunk_number  *)
(* n, and n strictly increases in submission order, across batches and     *)
(* sections and after a failed submission; so the ids are distinct.        *)
C10_IdsDistinctAndIncreasing ==
    LET ids == SubmittedIds(submissions)
        metas == SubmittedMetas(submissions)
    IN  /\ Len(ids) = Len(metas)
        /\ \A i \in 1..Len(ids) :
              ids[i] = <<"doc", "_chunk_", metas[i].chunk_number>>
        /\ \A i, j \in 1..Len(ids) :
              i < j => /\ metas[i].chunk_number < metas[j].chunk_number
                       /\ ids[i] # ids[j]

\* Records of two sections submitted in several batches, the first failed.
C10_Witness ==
    /\ Len(submissions) >= 2
    /\ ~submissions[1].ok
    /\ submissions[Len(submissions)].ok
    /\ LET metas == SubmittedMetas(submissions)
       IN  /\ Len(metas) >= 3
           /\ metas[1].section # metas[Len(metas)].section

\* The chunks of the items of a chunk stream, in order.
StreamChunks(items) == [i \in 1..Len(items) |-> items[i].chunk]

RECURSIVE SubmittedDocs(_)
\* The documents of every collection.add call, in submission order.
SubmittedDocs(subs) ==
    IF subs = <<>> THEN <<>> ELSE Head(subs).docs \o SubmittedDocs(Tail(subs))

\* Every chunk the unified chunk stream yields for the sections of the call.
AllChunks == StreamChunks(full_stream)

(* C11: with batch_size >= 1, the chunks handed to collection.add so far,   *)
(* then those of the batch being filled, then those the stream has yet to  *)
(* yield are exactly the chunks of the unified chunk stream, in stream      *)
(* order (none skipped, none twice); every submission holds between 1 and  *)
(* batch_size chunks; and when process_document returns every chunk has     *)
(* been submitted, the trailing partial batch included.                     *)
C11_EveryChunkSubmittedOnce ==
    (ipc \in {"fill", "submit", "returned"} /\ batch_size >= 1) =>
        /\ SubmittedDocs(submissions) \o batch.docs \o StreamChunks(chunk_stream)
              = AllChunks
        /\ \A i \in 1..Len(submissions) :
              /\ Len(submissions[i].docs) \in 1..batch_size
              /\ i < Len(submissions) => Len(submissions[i].docs) = batch_size
        /\ ipc = "returned" => SubmittedDocs(submissions) = AllChunks

\* Three chunks in batches of two: a full batch, then the trailing one.
C11_Witness ==
    /\ ipc = "returned" /\ batch_size = 2
    /\ Len(submissions) = 2
    /\ Len(submissions[1].docs) = 2 /\ Len(submissions[2].docs) = 1
    /\ Len(sections) >= 2

RECURSIVE PersistedRecords(_)
\* The records of the batches whose collection.add call succeeded.
PersistedRecords(subs) ==
    IF subs = <<>> THEN {}
    ELSE (IF Head(subs).ok THEN BatchRecords(Head(subs)) ELSE {})
         \cup PersistedRecords(Tail(subs))

RECURSIVE PersistedCount(_)
\* The number of records in the batches whose collection.add call succeeded.
PersistedCount(subs) ==
    IF subs = <<>> THEN 0
    ELSE (IF Head(subs).ok THEN Len(Head(subs).docs) ELSE 0)
         + PersistedCount(Tail(subs))

(* C12: a collection.add call that raises does not end process_document:    *)
(* once a batch has been submitted the call never ends with an error; the   *)
(* collection holds exactly the records of the batches whose submission     *)
(* succeeded, before and after a failure; with batch_size >= 1 the call     *)
(* returns only after every chunk of the stream has been submitted, those   *)
(* after a failed batch included; and the value returned is the number of   *)
(* records in the succeeded batches.                                        *)
C12_FailedBatchIsSkipped ==
    /\ submissions # <<>> => ipc # "raised"
    /\ store = PersistedRecords(submissions)
    /\ total_chunks = PersistedCount(submissions)
    /\ ipc = "returned" =>
          /\ outcome = Returned(PersistedCount(submissions))
          /\ batch_size >= 1 => SubmittedDocs(submissions) = AllChunks

\* Three batches, the second of them failed: 2 is returned.
C12_Witness ==
    /\ ipc = "returned"
    /\ Len(submissions) = 3
    /\ submissions[1].ok /\ ~submissions[2].ok /\ submissions[3].ok
    /\ outcome = Returned(2)
    /\ Cardinality(store) = 2

\* The text_content argument is no string, is empty or holds only whitespace.
EmptyOrNonText ==
    \/ ~text_content.isStr
    \/ \A i \in 1..Len(text_content.lines) : text_content.lines[i].sents = <<>>

(* C13: process_document called with an empty, whitespace-only or           *)
(* non-string text ends with ValueError, with no get_or_create_collection   *)
(* call and no collection.add call made, and nothing in the collection.     *)
C13_InvalidTextFailsFast ==
    (EmptyOrNonText /\ ipc # "start") =>
        /\ ipc = "raised"
        /\ outcome = Raised("ValueError")
        /\ get_or_create_calls = 0
        /\ submissions = <<>>
        /\ store = {}

\* A text of two blank lines has been refused.
C13_Witness ==
    /\ ipc = "raised"
    /\ outcome = Raised("ValueError")
    /\ text_content.isStr /\ Len(text_content.lines) = 2

(* C14: every record handed to collection.add has metadata with the keys    *)
(* source, section and type, the type being "text" or "table", whatever     *)
(* base metadata the caller gave, none included.  (A metadata without the   *)
(* key source has source = NoneVal.)                                        *)
C14_MetadataHasSourceSectionType ==
    \A i \in 1..Len(SubmittedMetas(submissions)) :
        LET m == SubmittedMetas(submissions)[i]
        IN  /\ m.source # NoneVal
            /\ m.section \in { sections[k].header : k \in 1..Len(sections) }
            /\ m.type \in {"text", "table"}

RECURSIVE SectionSentences(_)
\* The sentences of the contents of the sections, in order.
SectionSentences(secs) ==
    IF secs = <<>> THEN <<>>
    ELSE SentTokenize(Head(secs).content) \o SectionSentences(Tail(secs))

\* The lines of the text before the first match of header_pattern, trimmed.
Preamble(lines) == TrimLines(SubSeq(lines, 1, NextMatch(lines, 1) - 1))

(* C15: _split_into_sections loses no content: the contents of the sections *)
(* taken in order hold every sentence of the text exactly once, and text    *)
(* that stands before the first matched header is the content of a first    *)
(* section with the header "Uncategorized".                                 *)
C15_SectionsLoseNoContent ==
    ipc \in {"fill", "submit", "returned"} =>
        /\ SectionSentences(sections) = SentTokenize(text_content.lines)
        /\ Preamble(text_content.lines) # <<>> =>
              /\ sections # <<>>
              /\ sections[1].header = "Uncategorized"
              /\ sections[1].content = Preamble(text_content.lines)

(* C16: for the text "1. COVERAGE / This plan covers hospitalization. /     *)
(* 2. EXCLUSIONS / Dental is excluded." with chunk_size = 1000 the section  *)
(* splitting gives exactly two sections, with the headers "1. COVERAGE" and *)
(* "2. EXCLUSIONS", and the ingestion submits exactly one record for each,  *)
(* both of type "text".                                                     *)
C16_TwoSectionsOneChunkEach ==
    (/\ text_content = [isStr |-> TRUE, lines |-> SectionScenario]
     /\ chunk_size = 1000
     /\ ipc \in {"fill", "submit", "returned"}) =>
        /\ Len(sections) = 2
        /\ sections[1].header = "1. COVERAGE"
        /\ sections[2].header = "2. EXCLUSIONS"
        /\ (ipc = "returned" /\ batch_size >= 1) =>
              LET m == SubmittedMetas(submissions)
              IN  /\ Len(m) = 2
                  /\ m[1].section = "1. COVERAGE" /\ m[1].type = "text"
                  /\ m[2].section = "2. EXCLUSIONS" /\ m[2].type = "text"

\* The number of "|" among the first TablePrefix characters of the content.
PrefixPipes(content) ==
    SumSeq([i \in 1..Len(content) |->
              IF LineOffset(content, i) < TablePrefix
              THEN Min(content[i].pipes, TablePrefix - LineOffset(content, i))
              ELSE 0])

\* The call took its text for a table: it yielded the whole text as one block.
YieldedAsTable == Len(yielded) = 1 /\ yielded[1].table

(* C17: a text is taken for a table if and only if its first 300 characters *)
(* hold more than 3 pipe characters; the pipes after that prefix do not     *)
(* count.                                                                   *)
C17_TableIffPipesInPrefix ==
    (cpc = "returned" /\ ctext.isStr /\ TrimLines(ctext.lines) # <<>>) =>
        (YieldedAsTable <=> PrefixPipes(ctext.lines) > TablePipes)

\* process_document was called with the table of four rows.
TableScenarioCall ==
    /\ text_content = [isStr |-> TRUE, lines |-> TableScenario]
    /\ ipc \in {"fill", "submit", "returned"}

(* C18, as stated: the table "|A|B| / |1|2| / |3|4| / |5|6|" is chunked as  *)
(* exactly one chunk, and the ingestion of it submits one record, of type  *)
(* "table".                                                                 *)
C18_TableTextOneTableRecord ==
    TableScenarioCall =>
        /\ LET c == _split_text_with_overlap(TableScenario, chunk_size, chunk_overlap)
           IN  Len(c) = 1 /\ c[1].table
        /\ (ipc = "returned" /\ batch_size >= 1
              /\ \A i \in 1..Len(submissions) : submissions[i].ok) =>
              LET m == SubmittedMetas(submissions)
              IN  Len(m) = 1 /\ m[1].type = "table"

(* C18, amended: the table "|A|B| / |1|2| / |3|4| / |5|6|" is chunked as    *)
(* exactly one chunk, the whole text of 23 characters; being the content of *)
(* an "Uncategorized" section of fewer than 50 characters, it is skipped by *)
(* the chunk stream, so that its ingestion submits no record and returns 0; *)
(* and every record the ingestion does submit has the type "table" when its *)
(* chunk is a table block and "text" otherwise.                             *)
C18_TableTextOneChunkNoRecord ==
    /\ TableScenarioCall =>
          /\ LET c == _split_text_with_overlap(TableScenario, chunk_size, chunk_overlap)
             IN  Len(c) = 1 /\ c[1].table /\ c[1].len = 23
          /\ Len(sections) = 1
          /\ sections[1].header = "Uncategorized"
          /\ sections[1].content = TableScenario
          /\ chunk_stream = <<>>
          /\ SubmittedDocs(submissions) = <<>>
          /\ ipc = "returned" => outcome = Returned(0)
    /\ LET d == SubmittedDocs(submissions)
           m == SubmittedMetas(submissions)
       IN  \A i \in 1..Len(d) :
              m[i].type = IF d[i].table THEN "table" ELSE "text"

\* The ingestion of the table of four rows has returned.
C18_Witness ==
    /\ TableScenarioCall
    /\ ipc = "returned"
    /\ outcome = Returned(0)
    /\ batch_size >= 1

\* The sentences of the text of the call, in order.
TextSentences == SentTokenize(ctext.lines)

\* The chunk is the whole trimmed text, yielded as one block.
WholeText(chunk) ==
    /\ chunk.table
    /\ chunk.sents = TextSentences
    /\ chunk.len = ContentLen(TrimLines(ctext.lines))

\* The chunk is a single-space join of whole consecutive sentences of the text.
JoinOfSentences(chunk) ==
    /\ ~chunk.table
    /\ \E a, b \in 1..Len(TextSentences) :
          a <= b /\ chunk.sents = SubSeq(TextSentences, a, b)
    /\ chunk.len = SumSeq(SentLens(chunk.sents)) + Len(chunk.sents) - 1

(* C19: every chunk of a _split_text_with_overlap call is non-empty and is  *)
(* either the whole trimmed text, yielded as the only chunk, or a           *)
(* single-space join of whole consecutive sentences (a sentence longer than *)
(* chunk_size included: no sentence is cut); a text with at least 4 pipes   *)
(* in its first 300 characters is yielded whole as the only chunk, whatever *)
(* its length; an empty, whitespace-only or non-text input yields nothing.  *)
C19_ChunksAreWholeTextOrSentences ==
    cpc = "returned" =>
        /\ \A i \in 1..Len(yielded) :
              /\ yielded[i].len > 0 /\ yielded[i].sents # <<>>
              /\ \/ WholeText(yielded[i]) /\ Len(yielded) = 1
                 \/ JoinOfSentences(yielded[i])
        /\ (ctext.isStr /\ PrefixPipes(ctext.lines) >= 4) =>
              Len(yielded) = 1 /\ WholeText(yielded[1])
        /\ (~ctext.isStr \/ TextSentences = <<>>) => yielded = <<>>

\* A sentence longer than chunk_size is a chunk of its own, among others.
C19_Witness ==
    /\ cpc = "returned"
    /\ Len(yielded) >= 3
    /\ \E i \in 1..Len(yielded) :
          /\ Len(yielded[i].sents) = 1
          /\ yielded[i].sents[1].len > csize
          /\ ~yielded[i].table

\* The sentences of the chunks with the carried-over leading sentence of
\* each chunk after the first removed: a chunk carries one when it starts
\* with the last sentence of the chunk before it.
RECURSIVE NonOverlap(_, _)
NonOverlap(chunks, k) ==
    IF k > Len(chunks) THEN <<>>
    ELSE LET sents == chunks[k].sents
             prev == chunks[k - 1].sents
             carried == k > 1 /\ Head(sents) = prev[Len(prev)]
         IN  (IF carried THEN Tail(sents) ELSE sents) \o NonOverlap(chunks, k + 1)

(* C20: for a non-empty text that is no table and chunk_size > 0, with or   *)
(* without overlap, the sentences of the chunks in order, the carried-over  *)
(* leading sentence of each chunk after the first left out, are exactly the *)
(* non-blank sentences of the text in order.                                *)
C20_ChunksReconstructSentences ==
    (cpc = "returned" /\ ctext.isStr /\ TextSentences # <<>> /\ csize > 0
       /\ ~YieldedAsTable) =>
        LET NonBlankSentence(x) == x.len > 0
        IN  NonOverlap(yielded, 1) = SelectSeq(TextSentences, NonBlankSentence)

\* With overlap: a chunk that starts with the carried sentence, and a later
\* chunk that carries none because the sentence before it was too long.
C20_Witness ==
    /\ cpc = "returned" /\ coverlap > 0 /\ ~YieldedAsTable
    /\ \E k \in 2..Len(yielded) :
          Head(yielded[k].sents) = yielded[k - 1].sents[Len(yielded[k - 1].sents)]
    /\ \E k \in 2..Len(yielded) :
          /\ Head(yielded[k].sents) # yielded[k - 1].sents[Len(yielded[k - 1].sents)]
          /\ yielded[k - 1].sents[Len(yielded[k - 1].sents)].len >= csize

\* The length of the longest sentence of the text of the call.
MaxSentenceLen ==
    LET lens == { TextSentences[i].len : i \in 1..Len(TextSentences) }
    IN  IF lens = {} THEN 0 ELSE CHOOSE m \in lens : \A n \in lens : n <= m

(* C21: every chunk of a _split_text_with_overlap call that is neither a    *)
(* table chunk nor the last chunk is, as a string (its sentences joined by *)
(* single spaces), at most chunk_size plus the length of the longest        *)
(* sentence of the text long.                                               *)
C21_ChunkLengthSoftBound ==
    cpc = "returned" =>
        \A i \in 1..(Len(yielded) - 1) :
            ~yielded[i].table => yielded[i].len <= csize + MaxSentenceLen

\* The place of a sentence in the text of the call.
IndexOf(x) == CHOOSE i \in 1..Len(TextSentences) : TextSentences[i] = x

LastOf(chunk) == chunk.sents[Len(chunk.sents)]

\* Chunk k starts with the last sentence of the chunk before it.
StartsWithCarried(k) == k > 1 /\ Head(yielded[k].sents) = LastOf(yielded[k - 1])

\* The sentence whose arrival flushed chunk k: the one after its last.
Trigger(k) == TextSentences[IndexOf(LastOf(yielded[k])) + 1]

\* The running length when the sentences q are buffered.
RunningLength(q) == SumSeq(SentLens(q))

(* C22: in a call on a text that is no table, (1) each chunk but the last   *)
(* was flushed because the running length plus the length of the next      *)
(* sentence was over chunk_size, and (2) no sentence was added to a         *)
(* non-empty buffer that it would have pushed over chunk_size; (3) with     *)
(* chunk_overlap > 0 the next chunk starts with the last sentence of the    *)
(* flushed chunk if and only if that sentence is shorter than chunk_size,   *)
(* and the triggering sentence follows; (4) with chunk_overlap = 0 the next *)
(* chunk starts with the triggering sentence and no sentence is in two      *)
(* chunks.  (The running length is the sum of the lengths of the buffered   *)
(* sentences.)                                                              *)
C22_FlushAndCarryRule ==
    (cpc = "returned" /\ ~YieldedAsTable) =>
        /\ \A k \in 1..(Len(yielded) - 1) :
              /\ IndexOf(LastOf(yielded[k])) < Len(TextSentences)
              /\ RunningLength(yielded[k].sents) + Trigger(k).len > csize
        /\ \A k \in 1..Len(yielded) :
              LET sents == yielded[k].sents
                  first == IF StartsWithCarried(k) THEN 3 ELSE 2
              IN  \A j \in first..Len(sents) :
                      RunningLength(SubSeq(sents, 1, j - 1)) + sents[j].len <= csize
        /\ coverlap > 0 =>
              \A k \in 1..(Len(yielded) - 1) :
                  /\ StartsWithCarried(k + 1) <=> LastOf(yielded[k]).len < csize
                  /\ yielded[k + 1].sents[IF StartsWithCarried(k + 1) THEN 2 ELSE 1]
                        = Trigger(k)
        /\ coverlap = 0 =>
              /\ \A k \in 1..(Len(yielded) - 1) :
                    Head(yielded[k + 1].sents) = Trigger(k)
              /\ \A k, l \in 1..Len(yielded) :
                    k # l =>
                      { yielded[k].sents[j] : j \in 1..Len(yielded[k].sents) }
                        \cap { yielded[l].sents[j] : j \in 1..Len(yielded[l].sents) }
                        = {}

\* A chunk made of the carried sentence, the triggering sentence and one
\* sentence more, and a chunk after a sentence too long to be carried.
C22_Witness ==
    /\ cpc = "returned" /\ ~YieldedAsTable /\ coverlap > 0
    /\ \E k \in 2..Len(yielded) :
          StartsWithCarried(k) /\ Len(yielded[k].sents) >= 3
    /\ \E k \in 2..Len(yielded) :
          ~StartsWithCarried(k) /\ LastOf(yielded[k - 1]).len >= csize

(* C23: for every two consecutive chunks of a call, the text the second     *)
(* repeats from the end of the first is at most chunk_overlap characters    *)
(* long.                                                                    *)
C23_CarriedTextWithinOverlap ==
    (cpc = "returned" /\ ~YieldedAsTable) =>
        \A k \in 2..Len(yielded) :
            StartsWithCarried(k) => Head(yielded[k].sents).len <= coverlap

\* No line of the text starts with a header marker.
NoMarker(lines) == \A i \in 1..Len(lines) : ~lines[i].header

(* C24: every section _split_into_sections returns has a content that is    *)
(* non-empty and trimmed, the sections follow the order of the document     *)
(* (each holds lines in their order, and lies before the next), a text with *)
(* no header marker gives exactly one section, "Uncategorized", holding the *)
(* whole trimmed text, and a blank text gives no section.                   *)
C24_SectionsNonEmptyInOrder ==
    /\ ipc \in {"fill", "submit", "returned"} =>
          /\ \A k \in 1..Len(sections) :
                LET c == sections[k].content
                IN  /\ c # <<>> /\ TrimLines(c) = c
                    /\ \A i \in 1..(Len(c) - 1) : c[i].pos < c[i + 1].pos
                    /\ k < Len(sections) =>
                          c[Len(c)].pos < sections[k + 1].content[1].pos
          /\ NoMarker(text_content.lines) =>
                sections = <<[header |-> "Uncategorized",
                              content |-> TrimLines(text_content.lines)]>>
    /\ (text_content.isStr /\ TrimLines(text_content.lines) = <<>>) =>
          _split_into_sections(text_content.lines) = <<>>

\* A text without marker, blank lines around its only sentences, was split.
C24_Witness ==
    /\ ipc = "fill"
    /\ NoMarker(text_content.lines)
    /\ Len(text_content.lines) = 3
    /\ text_content.lines[1].sents = <<>> /\ text_content.lines[3].sents = <<>>
    /\ Len(sections) = 1 /\ Len(sections[1].content) = 1

\* The items of the unified chunk stream of the call.
AllItems == full_stream

(* C25: with batch_size >= 1 every collection.add call carries documents,   *)
(* metadatas and ids of one length, between 1 and batch_size; the record at *)
(* each position is one chunk of the stream with its own section, type,     *)
(* chunk_number and id; a call with fewer than batch_size records is the    *)
(* last one, made when the stream has ended; no call is made with an empty  *)
(* batch.                                                                   *)
C25_BatchesAlignedAndFull ==
    batch_size >= 1 =>
        LET items == AllItems
        IN  \A i \in 1..Len(submissions) :
              LET s == submissions[i]
              IN  /\ Len(s.docs) = Len(s.metas) /\ Len(s.metas) = Len(s.ids)
                  /\ Len(s.docs) >= 1 /\ Len(s.docs) <= batch_size
                  /\ \A j \in 1..Len(s.docs) :
                        LET n == s.metas[j].chunk_number + 1
                        IN  /\ n \in 1..Len(items)
                            /\ s.docs[j] = items[n].chunk
                            /\ s.metas[j].section = items[n].section
                            /\ s.metas[j].type = items[n].type
                            /\ s.ids[j] = <<"doc", "_chunk_", n - 1>>
                  /\ Len(s.docs) < batch_size =>
                        i = Len(submissions) /\ chunk_stream = <<>>

\* Two calls for three chunks with batch_size 2, the second with one record.
C25_Witness ==
    /\ ipc = "fill" /\ batch_size = 2
    /\ Len(submissions) = 2
    /\ Len(submissions[2].ids) = 1
    /\ submissions[2].metas[1].chunk_number = 2
    /\ metadata.source = "policy.pdf"

\* ceil(n / d)
CeilDiv(n, d) == (n + d - 1) \div d

\* With batch_size >= 1: no more than ceil(C / batch_size) collection.add
\* calls are made, C being the number of chunks of the stream, and once the
\* batching loop runs the call does not end with an error.
SubmissionsBounded ==
    batch_size >= 1 =>
        /\ Len(submissions) <= CeilDiv(Len(AllItems), batch_size)
        /\ ipc = "raised" => submissions = <<>> /\ chunk_stream = <<>>
        /\ ipc = "returned" => outcome.kind = "returned"

(* C26: with batch_size >= 1 a process_document call makes at most          *)
(* ceil(C / batch_size) collection.add calls, whether they succeed or       *)
(* raise, and it terminates; once the chunk stream is made the call ends    *)
(* by returning its count, the end of the stream being no error.            *)
C26_TerminatesWithinBound ==
    /\ []SubmissionsBounded
    /\ (batch_size >= 1) ~> (ipc \in {"returned", "raised"})
    /\ (batch_size >= 1 /\ ipc \in {"fill", "submit"}) ~> (ipc = "returned")

\* Three chunks, batch_size 2, both collection.add calls failed: returned 0.
C26_Witness ==
    /\ ipc = "returned" /\ batch_size = 2
    /\ Len(AllItems) = 3
    /\ Len(submissions) = 2
    /\ \A i \in 1..Len(submissions) : ~submissions[i].ok
    /\ outcome = Returned(0)

\* The passages retrieved for question idx that have a text: the j-th
\* document of results['documents'][idx], where it has a metadata entry
\* beside it and is a non-empty string, under its label j.
PassagesFor(res, idx) ==
    IF res.k = "dict" /\ res.hasDocs /\ res.hasMetas
       /\ idx <= Len(res.documents) /\ idx <= Len(res.metadatas)
       /\ res.documents[idx].k = "list" /\ res.metadatas[idx].k = "list"
    THEN LET docs == res.documents[idx].v
             m == Min(Len(docs), Len(res.metadatas[idx].v))
             HasText(x) == x.document \notin {NoneVal, ""}
         IN  SelectSeq([j \in 1..m |-> [label |-> j, document |-> docs[j]]],
                       HasText)
    ELSE <<>>

\* The first part of the prompt that is about a question.
FirstQuestionPart == IF prompt[2].t = "history" THEN 3 ELSE 2

(* C27: the combined prompt holds the questions in input order, numbered    *)
(* 1..N, each followed at once by its own context, made of the passages     *)
(* retrieved for its own index and of no other, or by the marker "No        *)
(* relevant information found" when that context is empty; and it holds the *)
(* conversation history exactly when the history is not blank.              *)
C27_PromptQuestionsWithOwnContext ==
    prompt # <<>> =>
        /\ prompt[1].t = "system"
        /\ (prompt[2].t = "history") <=> (conversation_history \notin {"", " "})
        /\ prompt[2].t = "history" => prompt[2].text = <<conversation_history>>
        /\ \A k \in 1..Len(prompt) :
              prompt[k].t = "history" => k = 2
        /\ \A i \in 1..Len(queries) :
              LET q == prompt[FirstQuestionPart + 2 * (i - 1)]
                  c == prompt[FirstQuestionPart + 2 * (i - 1) + 1]
              IN  /\ q.t = "question" /\ q.i = i /\ q.text = queries[i]
                  /\ c.i = i
                  /\ IF PassagesFor(results, i) # <<>>
                     THEN c.t = "context" /\ c.ctx = PassagesFor(results, i)
                     ELSE c.t = "no_context"
        /\ Cardinality({ k \in 1..Len(prompt) : prompt[k].t = "question" })
              = Len(queries)

\* Three questions and a history: the first two questions with different
\* contexts, the third with the marker.
C27_Witness ==
    /\ pc = "generating"
    /\ Len(queries) = 3
    /\ conversation_history = "h"
    /\ prompt[4].t = "context" /\ prompt[6].t = "context"
    /\ prompt[4].ctx # prompt[6].ctx
    /\ prompt[8].t = "no_context"

(* C28: one run_pipeline request with N questions makes one similarity      *)
(* search and one generation call in all, not one for each question.        *)
C28_OneSearchOneGenerationPerRequest ==
    /\ search_calls <= 1
    /\ generate_calls <= 1

(* C29: every collection created while a run_pipeline request is handled is *)
(* deleted before the request is answered, on every path.                   *)
C29_CollectionDeletedOnEveryPath ==
    rpc = "responded" => live = {}

(* C30: over any sequence or interleaving of process_document calls on the *)
(* same collection name, no id issued by one call is issued by another.    *)
C30_NoIdIssuedByTwoCalls ==
    \A i, j \in 1..Len(issued) :
        issued[i].call # issued[j].call =>
            \A a \in 1..Len(issued[i].ids), b \in 1..Len(issued[j].ids) :
                issued[i].ids[a] # issued[j].ids[b]

(* C33: process_document terminates for every integer batch_size, those     *)
(* <= 0 included: the call ends by returning or raising, and does not go on *)
(* for ever submitting empty batches.                                        *)
C33_TerminatesForEveryBatchSize ==
    <>(ipc \in {"returned", "raised"})

\* The number a digit stands for.
DigitValue(c) == CASE c = "0" -> 0 [] c = "1" -> 1 [] c = "2" -> 2 [] c = "3" -> 3

RECURSIVE NumberOf(_, _)
\* The number the digits stand for, read after the number acc.
NumberOf(digits, acc) ==
    IF digits = <<>> THEN acc
    ELSE NumberOf(Tail(digits), 10 * acc + DigitValue(Head(digits)))

\* The leading digits of a trimmed line.
LeadingDigits(line) == SubSeq(line, 1, Len(line) - Len(DropDigits(line)))

\* A trimmed line is enumerated when it starts with digits followed by "."
\* or ")".
Enumerated(line) ==
    /\ LeadingDigits(line) # <<>>
    /\ DropDigits(line) # <<>>
    /\ Head(DropDigits(line)) \in {".", ")"}

\* The k of a line enumerated "k." or "k)".
EnumeratorOf(line) == NumberOf(LeadingDigits(line), 0)

\* The answer text of an enumerated line: what follows the enumerator and
\* the whitespace after it.
AnswerTextOf(line) == LStrip(Tail(DropDigits(line)))

(* C31: in the result of a multi-question call, a response line enumerated  *)
(* "k.", k being the number of a question, gives the answer at position k, *)
(* whatever lines the response leaves out or adds.                          *)
C31_EnumeratedAnswerAtItsPosition ==
    (pc = "done" /\ ~is_single_query) =>
        LET raw == RawAnswers(final_response)
        IN  \A j \in 1..Len(raw) :
              (Enumerated(raw[j]) /\ EnumeratorOf(raw[j]) \in 1..Len(queries)) =>
                  /\ EnumeratorOf(raw[j]) \in 1..Len(ret.items)
                  /\ ret.items[EnumeratorOf(raw[j])].answer
                        = TextAnswer(AnswerTextOf(raw[j]))

(* C32: the parsing removes a leading enumerator and nothing else: a        *)
(* non-blank line with no enumerator is returned as it is, trimmed; of an   *)
(* enumerated line the answer text is returned whole, also when it starts   *)
(* with digits; and no parsed answer is empty.                              *)
C32_OnlyEnumeratorRemoved ==
    parse_pc = "returned" =>
        LET raw == RawAnswers(parse_response)
        IN  \A j \in 1..Len(raw) :
              /\ parsed_answers[j] =
                    TextAnswer(IF Enumerated(raw[j]) THEN AnswerTextOf(raw[j])
                                                     ELSE raw[j])
              /\ parsed_answers[j].v # <<>>

====
